---------------------------- MODULE Spec2Model ----------------------------
(***************************************************************************)
(* A model of the OAuth2/OIDC authentication gateway of mcp-base           *)
(* (templates/server/auth_oidc.py): the provider's construction, the JWKS  *)
(* cache, verify_token, authenticate_request and OIDCAuthMiddleware's      *)
(* dispatch.                                                               *)
(*                                                                         *)
(* Python strings are sequences of atoms (TLA+ strings standing for one or *)
(* more characters that no operation of the code splits).  An HTTP         *)
(* Authorization header is a sequence of header atoms (records), so that   *)
(* str.split(), str.split('.') and the JOSE decoding act on it.            *)
(***************************************************************************)
EXTENDS Integers, Sequences, FiniteSets, TLC

VARIABLES
    ctor,           \* the arguments OIDCAuthProvider.__init__ was called with
    config,         \* the dict load_oidc_config_from_file returned
    environ,        \* the process environment read by os.getenv
    upstream,       \* the identity provider's discovery document at startup
    provider,       \* the fields of the constructed OIDCAuthProvider
    exclude_paths,  \* OIDCAuthMiddleware.exclude_paths
    jwks_cache,     \* JWKSCache: [jwks, last_fetch]
    now,            \* time.time()
    op,             \* the operation in flight: "none", "dispatch", "verify_token"
    pc,             \* its position: "idle", "jwks_fetch", "call_next", "done"
    request,        \* the request being dispatched: path, Authorization, state
    token,          \* the argument of the verify_token call in flight
    verify,         \* what verify_token did for this operation
    result,         \* what the operation returned or raised
    hist,           \* per-operation counters of the calls made
    startup,        \* what __init__ read for the DCR proxy: config, environment,
                    \* the management secret file, the discovery GET's outcome
    proxy,          \* the provider's fields for the DCR proxy (management
                    \* credentials, upstream endpoint, client_secrets_file)
    client_secrets, \* OIDCAuthProvider.client_secrets, the in-memory list
    files,          \* the YAML secrets files: the configured one and the
                    \* default file of DCR-captured secrets
    reg,            \* the POST /register request in flight
    meta,           \* the metadata request in flight
    jwe,            \* the _decrypt_jwe_token call: the keys it tried, in order
    calls,          \* the get_jwks coroutines running concurrently
    runner,         \* run_plugin_tests of the test client: its loop and results
    artifacts,      \* the ArtifactStore singleton and its last call
    registrations   \* the register_client coroutines running concurrently

\* the variables of the DCR proxy and of the metadata routes
tool_vars == <<runner, artifacts, registrations>>
dcr_vars == <<startup, proxy, client_secrets, files, reg, meta, jwe, calls, tool_vars>>

vars == <<ctor, config, environ, upstream, provider, exclude_paths, jwks_cache, now,
          op, pc, request, token, verify, result, hist,
          startup, proxy, client_secrets, files, reg, meta, jwe, calls, runner, artifacts,
          registrations>>

-----------------------------------------------------------------------------
(* Bounds of the model and constants of the program *)

\* JWKSCache.__init__'s default cache_ttl, in seconds
cache_ttl == 3600

\* how often the clock may advance within one behaviour
MaxTicks == 2

\* the clock advances by half a TTL per tick
TickStep == cache_ttl \div 2

\* time.time() at startup: later than one TTL after the epoch
StartTime == 2 * cache_ttl

-----------------------------------------------------------------------------
(* Python values *)

\* Optional[str]: None, or a string (a sequence of atoms)
None == [some |-> FALSE, v |-> <<>>]
Str(s) == [some |-> TRUE, v |-> s]

\* bool(x) of an Optional[str]: None and "" are falsy
Truthy(o) == o.some /\ o.v # <<>>

\* Python's `a or b`: a when it is truthy, b otherwise
Or(a, b) == IF Truthy(a) THEN a ELSE b

\* a parameter of a call: passed explicitly or left to its default
NotPassed == [passed |-> FALSE, val |-> None]
Passed(o) == [passed |-> TRUE, val |-> o]
Param(arg, default) == IF arg.passed THEN arg.val ELSE default

RECURSIVE rstrip(_, _)
\* str.rstrip(ch): drop the trailing atoms equal to ch
rstrip(s, ch) ==
    IF s # <<>> /\ s[Len(s)] = ch THEN rstrip(SubSeq(s, 1, Len(s) - 1), ch) ELSE s

\* str.startswith(prefix)
startswith(s, p) == Len(p) <= Len(s) /\ SubSeq(s, 1, Len(p)) = p

\* `atom in text` for a text built from atoms
Contains(s, a) == \E i \in 1..Len(s) : s[i] = a

RECURSIVE split_sep(_, _, _)
\* str.split(sep): the pieces between the separators, empty pieces kept;
\* cur is the piece being read
split_sep(s, sep, cur) ==
    IF s = <<>> THEN <<cur>>
    ELSE IF Head(s) = sep THEN <<cur>> \o split_sep(Tail(s), sep, <<>>)
    ELSE split_sep(Tail(s), sep, Append(cur, Head(s)))

RECURSIVE split_ws(_, _, _)
\* str.split(): the pieces between runs of whitespace, no empty piece
split_ws(s, ws, cur) ==
    IF s = <<>> THEN (IF cur = <<>> THEN <<>> ELSE <<cur>>)
    ELSE IF Head(s) = ws
         THEN (IF cur = <<>> THEN <<>> ELSE <<cur>>) \o split_ws(Tail(s), ws, <<>>)
         ELSE split_ws(Tail(s), ws, Append(cur, Head(s)))

RECURSIVE int_digits(_)
\* str(n) of a natural number, one atom per decimal digit
int_digits(n) ==
    LET d == <<"0", "1", "2", "3", "4", "5", "6", "7", "8", "9">>[(n % 10) + 1]
    IN IF n < 10 THEN <<d>> ELSE Append(int_digits(n \div 10), d)

\* an exception: its class and str(e)
Exc(type, msg) == [type |-> type, msg |-> msg]
NoExc == Exc("", <<>>)


-----------------------------------------------------------------------------
(* Tokens, claims and key sets *)

\* a claim that holds a string or a list of strings, or is absent
Absent == [kind |-> "absent", s |-> <<>>, l |-> <<>>]
Scalar(s) == [kind |-> "str", s |-> s, l |-> <<>>]
List(l) == [kind |-> "list", s |-> <<>>, l |-> l]

\* the 'exp' claim: absent, or a time
NoExp == [some |-> FALSE, t |-> 0]
Exp(t) == [some |-> TRUE, t |-> t]

\* a JWT payload, as the claim map JSON-decoded from it
Claims(iss, aud, scope, sub, exp) ==
    [iss |-> iss, aud |-> aud, scope |-> scope, sub |-> sub, exp |-> exp]
NoClaims == Claims(None, Absent, Absent, None, NoExp)

\* one atom of an Authorization header or of a token: a word, a space, a
\* dot, or a base64url JOSE segment (header naming a key, payload, signature
\* made with a key)
HAtom(t, kid, claims) == [t |-> t, kid |-> kid, claims |-> claims]
W(s) == HAtom(s, "", NoClaims)
Sp == W(" ")
Dot == W(".")
Hdr(kid) == HAtom("hdr", kid, NoClaims)
Pay(c) == HAtom("payload", "", c)
Sig(kid) == HAtom("sig", kid, NoClaims)

\* a compact JWS: header.payload.signature
Jwt(kid, c, signer) == <<Hdr(kid), Dot, Pay(c), Dot, Sig(signer)>>

\* str.lower() of a header word
lower(part) ==
    [i \in 1..Len(part) |->
        IF part[i].t \in {"Bearer", "BEARER", "bearer"} THEN W("bearer")
        ELSE IF part[i].t \in {"Basic", "basic"} THEN W("basic")
        ELSE part[i]]

\* the JWKS document of a response, or the cache's initial None
NoJwks == [kind |-> "none", keys |-> {}]
Jwks(keys) == [kind |-> "dict", keys |-> keys]

\* the outcome of a call: a returned claim map or a raised exception
Return(c) == [ok |-> TRUE, claims |-> c, exc |-> NoExc]
Raise(e) == [ok |-> FALSE, claims |-> NoClaims, exc |-> e]

-----------------------------------------------------------------------------
(* OIDCAuthProvider.__init__ *)

\* required_scope's default in the signature of __init__
required_scope_default == Str(<<"openid">>)

\* _discover_jwks_uri: the jwks_uri of the discovery document; None stands
\* for the ValueError it raises when the fetch fails or the field is missing
discover_jwks_uri(doc) == IF Truthy(doc.jwks_uri) THEN doc.jwks_uri ELSE None

\* the provider __init__ builds from its arguments, the config file, the
\* environment and the discovery document; ok is FALSE when it raises
\* ValueError
OIDCAuthProvider_init(args, cfg, env, doc) ==
    LET issuer == Or(Or(Param(args.issuer, None), cfg.issuer), env.OIDC_ISSUER)
        audience == Or(Or(Param(args.audience, None), cfg.audience), env.OIDC_AUDIENCE)
        public_url == Or(Or(Param(args.public_url, None), cfg.public_url), env.PUBLIC_URL)
        configured_jwks_uri ==
            Or(Or(Param(args.jwks_uri, None), cfg.jwks_uri), env.OIDC_JWKS_URI)
        jwks_uri ==
            IF Truthy(configured_jwks_uri) THEN configured_jwks_uri
            ELSE discover_jwks_uri(doc)
        required_scope ==
            Or(Or(Param(args.required_scope, required_scope_default), cfg.scope),
               env.OIDC_SCOPE)
    IN [ok |-> Truthy(issuer) /\ Truthy(audience) /\ Truthy(jwks_uri),
        issuer |-> issuer,
        audience |-> audience,
        jwks_uri |-> jwks_uri,
        public_url |-> public_url,
        required_scope |-> required_scope]

\* OIDCAuthMiddleware.__init__: exclude_paths or the default list
default_exclude_paths == <<<<"/healthz">>, <<"/readyz">>, <<"/.well-known/">>, <<"/register">>>>
OIDCAuthMiddleware_init(arg) == IF arg # <<>> THEN arg ELSE default_exclude_paths

-----------------------------------------------------------------------------
(* JWKSCache *)

\* jwks_cache_valid without the test of the entry's age
jwks_cache_valid_forever(cache, current_time) == cache.jwks.kind = "dict"

\* get_jwks's test that the cached key set can be returned without a fetch
jwks_cache_valid(cache, current_time) ==
    /\ cache.jwks.kind = "dict"
    /\ (current_time - cache.last_fetch) < cache_ttl

\* what the HTTP GET of get_jwks can end with: a JWKS document, a non-2xx
\* status (raise_for_status), a transport error or timeout, a body that is
\* not JSON (json.JSONDecodeError, a ValueError)
FetchOk(doc) == [kind |-> "ok", doc |-> doc]
FetchFail(kind) == [kind |-> kind, doc |-> NoJwks]

fetch_exception(outcome) ==
    IF outcome.kind = "bad_json"
    THEN Exc("ValueError", <<"Expecting value: line 1 column 1 (char 0)">>)
    ELSE IF outcome.kind = "http_status"
    THEN Exc("Exception", <<"Server error '503 Service Unavailable' for url">>)
    ELSE Exc("Exception", <<"All connection attempts failed">>)

\* get_jwks_fetched falling back to the cached key set when the GET fails
get_jwks_fetched_stale_fallback(cache, current_time, o) ==
    IF o.kind = "ok"
    THEN [cache |-> [jwks |-> o.doc, last_fetch |-> current_time], ok |-> TRUE,
          jwks |-> o.doc, exc |-> NoExc]
    ELSE IF cache.jwks.kind = "dict"
    THEN [cache |-> cache, ok |-> TRUE, jwks |-> cache.jwks, exc |-> NoExc]
    ELSE [cache |-> cache, ok |-> FALSE, jwks |-> NoJwks, exc |-> fetch_exception(o)]

\* get_jwks_fetched setting _last_fetch back to the constructor's value
get_jwks_fetched_resets_stamp(cache, current_time, o) ==
    IF o.kind = "ok"
    THEN [cache |-> [jwks |-> o.doc, last_fetch |-> 0], ok |-> TRUE,
          jwks |-> o.doc, exc |-> NoExc]
    ELSE [cache |-> cache, ok |-> FALSE, jwks |-> NoJwks, exc |-> fetch_exception(o)]

\* get_jwks_fetched assigning _jwks alone
get_jwks_fetched_keys_only(cache, current_time, o) ==
    IF o.kind = "ok"
    THEN [cache |-> [jwks |-> o.doc, last_fetch |-> cache.last_fetch], ok |-> TRUE,
          jwks |-> o.doc, exc |-> NoExc]
    ELSE [cache |-> cache, ok |-> FALSE, jwks |-> NoJwks, exc |-> fetch_exception(o)]

\* get_jwks once the HTTP GET has ended with o: on success _jwks and
\* _last_fetch are assigned (the time read before the GET) and the key set is
\* returned; on failure the exception leaves get_jwks before any assignment
get_jwks_fetched(cache, current_time, o) ==
    IF o.kind = "ok"
    THEN [cache |-> [jwks |-> o.doc, last_fetch |-> current_time], ok |-> TRUE,
          jwks |-> o.doc, exc |-> NoExc]
    ELSE [cache |-> cache, ok |-> FALSE, jwks |-> NoJwks, exc |-> fetch_exception(o)]


-----------------------------------------------------------------------------
(* OIDCAuthProvider.verify_token *)

\* verify_token_begin without the branch for five segments
verify_token_begin_no_jwe_branch(tok) ==
    LET token_parts == split_sep(tok, Dot, <<>>)
    IN IF Len(token_parts) # 3
       THEN [next |-> "raise", decrypts |-> 0,
             exc |-> Exc("JoseError",
                         <<"Invalid token format: expected 3 parts (JWT), got ">>
                             \o int_digits(Len(token_parts)) \o <<": ">>)]
       ELSE [next |-> "get_jwks", decrypts |-> 0, exc |-> NoExc]

\* verify_token_begin rejecting only tokens of fewer than three segments
verify_token_begin_short_only(tok) ==
    LET token_parts == split_sep(tok, Dot, <<>>)
    IN IF Len(token_parts) = 5
       THEN [next |-> "raise", decrypts |-> 0,
             exc |-> Exc("JoseError",
                         <<"JWE_TOKEN_DETECTED", ": Cannot decrypt JWE token", ": ">>)]
       ELSE IF Len(token_parts) < 3
       THEN [next |-> "raise", decrypts |-> 0,
             exc |-> Exc("JoseError",
                         <<"Invalid token format: expected 3 parts (JWT), got ">>
                             \o int_digits(Len(token_parts)) \o <<": ">>)]
       ELSE [next |-> "get_jwks", decrypts |-> 0, exc |-> NoExc]

\* the format check that opens verify_token: what it does next, the
\* exception it raises, and how often it called _decrypt_jwe_token
verify_token_begin(tok) ==
    LET token_parts == split_sep(tok, Dot, <<>>)
    IN IF Len(token_parts) = 5
       THEN [next |-> "raise", decrypts |-> 0,
             exc |-> Exc("JoseError",
                         <<"JWE_TOKEN_DETECTED", ": Cannot decrypt JWE token", ": ">>)]
       ELSE IF Len(token_parts) # 3
       THEN [next |-> "raise", decrypts |-> 0,
             exc |-> Exc("JoseError",
                         <<"Invalid token format: expected 3 parts (JWT), got ">>
                             \o int_digits(Len(token_parts)) \o <<": ">>)]
       ELSE [next |-> "get_jwks", decrypts |-> 0, exc |-> NoExc]

\* authlib's jwt.decode(token, jwks_data): decode the three segments, find
\* the key the header names in the key set, verify the signature
jwt_decode(tok, jwks) ==
    LET parts == split_sep(tok, Dot, <<>>)
    IN IF ~(/\ Len(parts) = 3
            /\ \A i \in 1..3 : Len(parts[i]) = 1
            /\ parts[1][1].t = "hdr"
            /\ parts[2][1].t = "payload"
            /\ parts[3][1].t = "sig")
       THEN Raise(Exc("JoseError", <<"decode_error", ": ">>))
       ELSE IF parts[1][1].kid \notin jwks.keys
       THEN Raise(Exc("ValueError", <<"Invalid JSON Web Key Set">>))
       ELSE IF parts[3][1].kid # parts[1][1].kid
       THEN Raise(Exc("JoseError", <<"bad_signature", ": ">>))
       ELSE Return(parts[2][1].claims)

\* authlib's JWTClaims.validate() at time t: the token must not be expired
claims_validate(c, t) ==
    IF c.exp.some /\ c.exp.t < t
    THEN Raise(Exc("JoseError", <<"expired_token", ": The token is expired">>))
    ELSE Return(c)

\* valid_issuers without the advertised issuer
valid_issuers_backend_only(prov) == <<rstrip(prov.issuer.v, "/")>>

\* the issuers verify_token accepts: the backend issuer and, when set and
\* different, the advertised one, trailing slashes stripped
valid_issuers(prov) ==
    LET backend_issuer == rstrip(prov.issuer.v, "/")
        advertised_issuer ==
            IF Truthy(prov.public_url) THEN rstrip(prov.public_url.v, "/") ELSE <<>>
    IN IF advertised_issuer # <<>> /\ advertised_issuer # backend_issuer
       THEN <<backend_issuer, advertised_issuer>>
       ELSE <<backend_issuer>>

\* claims.get('iss', '').rstrip('/')
token_issuer(c) == rstrip(IF c.iss.some THEN c.iss.v ELSE <<>>, "/")

\* the issuer step: token_issuer in valid_issuers
issuer_ok(c, prov) ==
    \E i \in 1..Len(valid_issuers(prov)) : valid_issuers(prov)[i] = token_issuer(c)

\* audience_ok accepting any list that is not empty
audience_ok_any_list(c, prov) ==
    IF c.aud.kind = "list"
    THEN c.aud.l # <<>>
    ELSE c.aud.kind = "str" /\ c.aud.s = prov.audience.v

\* the audience step: membership for a list, equality otherwise
audience_ok(c, prov) ==
    IF c.aud.kind = "list"
    THEN \E i \in 1..Len(c.aud.l) : c.aud.l[i] = prov.audience.v
    ELSE c.aud.kind = "str" /\ c.aud.s = prov.audience.v

\* the scopes of the token: claims.get('scope', ''), split when a string
token_scopes(c) ==
    IF c.scope.kind = "list" THEN c.scope.l ELSE split_ws(c.scope.s, " ", <<>>)

\* the scope step, taken only when required_scope is truthy
scope_ok(c, prov) ==
    Truthy(prov.required_scope)
        => \E i \in 1..Len(token_scopes(c)) : token_scopes(c)[i] = prov.required_scope.v

\* verify_token_end taking the audience step before the issuer step
verify_token_end_audience_first(tok, jwks, t, prov) ==
    LET decoded == jwt_decode(tok, jwks)
        validated == claims_validate(decoded.claims, t)
        claims == validated.claims
    IN IF ~decoded.ok THEN decoded
       ELSE IF ~validated.ok THEN validated
       ELSE IF ~audience_ok(claims, prov)
       THEN Raise(Exc("ValueError", <<"Invalid audience. Expected ">> \o prov.audience.v))
       ELSE IF ~issuer_ok(claims, prov)
       THEN Raise(Exc("ValueError",
                      <<"Invalid issuer. Expected one of ", "got ">> \o token_issuer(claims)))
       ELSE IF ~scope_ok(claims, prov)
       THEN Raise(Exc("ValueError",
                      <<"Required scope ">> \o prov.required_scope.v
                          \o <<" not found in token.">>))
       ELSE Return(claims)

\* verify_token_end returning the claims with the issuer it normalised
verify_token_end_normalised(tok, jwks, t, prov) ==
    LET decoded == jwt_decode(tok, jwks)
        validated == claims_validate(decoded.claims, t)
        claims == validated.claims
    IN IF ~decoded.ok THEN decoded
       ELSE IF ~validated.ok THEN validated
       ELSE IF ~issuer_ok(claims, prov)
       THEN Raise(Exc("ValueError",
                      <<"Invalid issuer. Expected one of ", "got ">> \o token_issuer(claims)))
       ELSE IF ~audience_ok(claims, prov)
       THEN Raise(Exc("ValueError", <<"Invalid audience. Expected ">> \o prov.audience.v))
       ELSE IF ~scope_ok(claims, prov)
       THEN Raise(Exc("ValueError",
                      <<"Required scope ">> \o prov.required_scope.v
                          \o <<" not found in token.">>))
       ELSE Return([claims EXCEPT !.iss = Str(token_issuer(claims))])

\* the rest of verify_token once the key set is there: decode, validate,
\* then the issuer, audience and scope steps in this order
verify_token_end(tok, jwks, t, prov) ==
    LET decoded == jwt_decode(tok, jwks)
        validated == claims_validate(decoded.claims, t)
        claims == validated.claims
    IN IF ~decoded.ok THEN decoded
       ELSE IF ~validated.ok THEN validated
       ELSE IF ~issuer_ok(claims, prov)
       THEN Raise(Exc("ValueError",
                      <<"Invalid issuer. Expected one of ", "got ">> \o token_issuer(claims)))
       ELSE IF ~audience_ok(claims, prov)
       THEN Raise(Exc("ValueError", <<"Invalid audience. Expected ">> \o prov.audience.v))
       ELSE IF ~scope_ok(claims, prov)
       THEN Raise(Exc("ValueError",
                      <<"Required scope ">> \o prov.required_scope.v
                          \o <<" not found in token.">>))
       ELSE Return(claims)

-----------------------------------------------------------------------------
(* OIDCAuthProvider._decrypt_jwe_token, the JWE fallback decryptor *)

\* len(secret.encode('utf-8')) of the secrets of the model
utf8_len(secret) ==
    CASE secret = "b64-of-32-bytes" -> 43
      [] secret = "text-of-32-bytes" -> 32
      [] secret = "text-of-40-bytes" -> 40
      [] OTHER -> 5

\* len(base64.urlsafe_b64decode(padded_secret)), or -1 when it raises
b64decoded_len(secret) ==
    CASE secret = "b64-of-32-bytes" -> 32
      [] secret = "text-of-32-bytes" -> 24
      [] secret = "text-of-40-bytes" -> 30
      [] OTHER -> -1

\* key bytes: the bytes a derivation makes of a secret.  The UTF-8 bytes cut
\* to 32 are the UTF-8 bytes themselves for a secret of 32 bytes.
KeyBytes(secret, form) == [secret |-> secret, form |-> form]
utf8_bytes(secret) == KeyBytes(secret, "utf8")
first_32_bytes(secret) ==
    IF utf8_len(secret) = 32 THEN utf8_bytes(secret) ELSE KeyBytes(secret, "utf8[:32]")
\* _prepare_jwe_key: the key variations of a secret, as pairs
\* <<method, key>>, in the order they are appended
prepare_jwe_key(secret) ==
    (IF b64decoded_len(secret) = 32
     THEN <<<<"base64url-decoded", KeyBytes(secret, "b64")>>>> ELSE <<>>)
        \o <<<<"sha256-hash", KeyBytes(secret, "sha256")>>>>
        \o (IF utf8_len(secret) = 32 THEN <<<<"utf8-direct", utf8_bytes(secret)>>>> ELSE <<>>)
        \o (IF utf8_len(secret) >= 32
            THEN <<<<"utf8-truncated", first_32_bytes(secret)>>>> ELSE <<>>)
        \o <<<<"raw", utf8_bytes(secret)>>>>

\* a JWE token: the key its content was encrypted with, what the content
\* is (a JSON object of claims, or a compact signed JWT), and the claims
Jwe(key, content, claims) == [key |-> key, content |-> content, claims |-> claims]

\* authlib's jwe.deserialize_compact(token, key): the content, for the key
\* the token was encrypted with; an exception for any other key
deserialize_compact(tok, key) == key = tok.key

\* the body of the try block for one key: decryption, then json.loads of the
\* decrypted payload, which raises for a payload that is no JSON
try_key(tok, key) == deserialize_compact(tok, key) /\ tok.content = "json"

RECURSIVE try_keys(_, _, _, _)
\* the two loops of _decrypt_jwe_token over the pairs still to try: the
\* attempts made, and the claims returned or the exception raised
try_keys(tok, pairs, attempts, claims) ==
    IF pairs = <<>>
    THEN [attempts |-> attempts,
          outcome |-> Raise(Exc("JoseError", <<"Cannot decrypt JWE token. ">>))]
    ELSE IF try_key(tok, Head(pairs)[3])
    THEN [attempts |-> Append(attempts, Head(pairs)), outcome |-> Return(claims)]
    ELSE try_keys(tok, Tail(pairs), Append(attempts, Head(pairs)), claims)

RECURSIVE key_variations(_, _)
\* the pairs in the order the loops reach them, as <<i, method, key>>: every
\* variation of the first secret, then every variation of the second, ...
key_variations(secrets, i) ==
    IF i > Len(secrets) THEN <<>>
    ELSE [n \in 1..Len(prepare_jwe_key(secrets[i])) |->
             <<i, prepare_jwe_key(secrets[i])[n][1], prepare_jwe_key(secrets[i])[n][2]>>]
         \o key_variations(secrets, i + 1)

\* _decrypt_jwe_token(token) with the secrets of the store
decrypt_jwe_token(tok, secrets) ==
    try_keys(tok, key_variations(secrets, 1), <<>>, tok.claims)

-----------------------------------------------------------------------------
(* OIDCAuthProvider.authenticate_request *)

\* an Authorization header: absent, or its value
NoHeader == [some |-> FALSE, v |-> <<>>]
Header(h) == [some |-> TRUE, v |-> h]

\* the header parsing of authenticate_request: the token to verify, or the
\* ValueError raised
authenticate_request_header(auth) ==
    LET parts == split_ws(auth.v, Sp, <<>>)
    IN IF ~(auth.some /\ auth.v # <<>>)
       THEN [ok |-> FALSE, token |-> <<>>,
             exc |-> Exc("ValueError", <<"Missing", " Authorization header">>)]
       ELSE IF Len(parts) # 2 \/ lower(parts[1]) # <<W("bearer")>>
       THEN [ok |-> FALSE, token |-> <<>>,
             exc |-> Exc("ValueError",
                         <<"Invalid Authorization header format. Expected 'Bearer <token>'">>)]
       ELSE [ok |-> TRUE, token |-> parts[2], exc |-> NoExc]

-----------------------------------------------------------------------------
(* OIDCAuthMiddleware.dispatch *)

\* is_excluded comparing the whole path with the entries
is_excluded_exact(path, excluded) ==
    \E i \in 1..Len(excluded) : path = excluded[i]

\* the loop over exclude_paths: some entry is a prefix of the path
is_excluded(path, excluded) ==
    \E i \in 1..Len(excluded) : startswith(path, excluded[i])

\* what an operation ended with: an HTTP response (dispatch), a returned
\* claim map or an exception that left the operation
NoResult ==
    [kind |-> "none", status |-> 0, error |-> "", description |-> <<>>,
     www |-> <<>>, by |-> "", claims |-> NoClaims, exc |-> NoExc]
Response(status, error, description, www, by) ==
    [NoResult EXCEPT !.kind = "response", !.status = status, !.error = error,
                     !.description = description, !.www = www, !.by = by]
Returned(c) == [NoResult EXCEPT !.kind = "return", !.claims = c]
Raised(e) == [NoResult EXCEPT !.kind = "raise", !.exc = e]

\* the WWW-Authenticate value the handlers build
www_authenticate(code, description) ==
    <<"Bearer realm=\"MCP API\"", ", error=\"", code, "\"", ", error_description=\"">>
        \o description \o <<"\"">>

\* error_response naming the body's error code in the header of a ValueError
error_response_body_code(e) ==
    IF e.type = "ValueError"
    THEN Response(401, "unauthorized", e.msg, www_authenticate("unauthorized", e.msg),
                  "middleware")
    ELSE IF e.type = "JoseError"
    THEN LET error_description ==
                 IF e.msg # <<>> THEN e.msg ELSE <<"Token verification failed">>
             error_code ==
                 IF Contains(error_description, "JWE_TOKEN_DETECTED") THEN "invalid_client"
                 ELSE "invalid_token"
         IN Response(401, error_code, error_description,
                     www_authenticate(error_code, error_description), "middleware")
    ELSE Response(500, "server_error", <<"Internal authentication error">>, <<>>,
                  "middleware")

\* error_response answering every JoseError with invalid_client
error_response_all_client(e) ==
    IF e.type = "ValueError"
    THEN Response(401, "unauthorized", e.msg,
                  www_authenticate(IF Contains(e.msg, "Missing") THEN "invalid_request"
                                   ELSE "invalid_token", e.msg),
                  "middleware")
    ELSE IF e.type = "JoseError"
    THEN LET error_description ==
                 IF e.msg # <<>> THEN e.msg ELSE <<"Token verification failed">>
         IN Response(401, "invalid_client", error_description,
                     www_authenticate("invalid_client", error_description), "middleware")
    ELSE Response(500, "server_error", <<"Internal authentication error">>, <<>>,
                  "middleware")

\* error_response without the last except clause: other exceptions go on
error_response_reraises(e) ==
    IF e.type = "ValueError"
    THEN Response(401, "unauthorized", e.msg,
                  www_authenticate(IF Contains(e.msg, "Missing") THEN "invalid_request"
                                   ELSE "invalid_token", e.msg),
                  "middleware")
    ELSE IF e.type = "JoseError"
    THEN LET error_description ==
                 IF e.msg # <<>> THEN e.msg ELSE <<"Token verification failed">>
             error_code ==
                 IF Contains(error_description, "JWE_TOKEN_DETECTED") THEN "invalid_client"
                 ELSE "invalid_token"
         IN Response(401, error_code, error_description,
                     www_authenticate(error_code, error_description), "middleware")
    ELSE Raised(e)

\* the except clauses of dispatch: the response for an exception raised
\* inside its try block
error_response(e) ==
    IF e.type = "ValueError"
    THEN Response(401, "unauthorized", e.msg,
                  www_authenticate(IF Contains(e.msg, "Missing") THEN "invalid_request"
                                   ELSE "invalid_token", e.msg),
                  "middleware")
    ELSE IF e.type = "JoseError"
    THEN LET error_description ==
                 IF e.msg # <<>> THEN e.msg ELSE <<"Token verification failed">>
             error_code ==
                 IF Contains(error_description, "JWE_TOKEN_DETECTED") THEN "invalid_client"
                 ELSE "invalid_token"
         IN Response(401, error_code, error_description,
                     www_authenticate(error_code, error_description), "middleware")
    ELSE Response(500, "server_error", <<"Internal authentication error">>, <<>>,
                  "middleware")


-----------------------------------------------------------------------------
(* OIDCAuthProvider.__init__: the DCR proxy's part *)

\* a YAML secrets file: missing, or a map holding a client_secrets list
NoFile == [exists |-> FALSE, secrets |-> <<>>]
File(secrets) == [exists |-> TRUE, secrets |-> secrets]

\* `x in l` for a list
InList(l, x) == \E i \in 1..Len(l) : l[i] = x

\* `if x not in l: l.append(x)`
append_new(l, x) == IF InList(l, x) THEN l ELSE Append(l, x)

RECURSIVE merge_new(_, _)
\* the loop appending each secret of xs that l does not hold yet
merge_new(l, xs) ==
    IF xs = <<>> THEN l ELSE merge_new(append_new(l, Head(xs)), Tail(xs))

\* _load_client_secrets_file: the list of a file; ok is FALSE when it raises
\* (FileNotFoundError for a missing file)
load_client_secrets_file(file) ==
    IF file.exists THEN [ok |-> TRUE, secrets |-> file.secrets]
    ELSE [ok |-> FALSE, secrets |-> <<>>]

\* the outcome of the GET of the issuer's discovery document at startup
DiscoveryOk(status, registration_endpoint) ==
    [kind |-> "response", status |-> status, registration_endpoint |-> registration_endpoint]
DiscoveryRaises == [kind |-> "exception", status |-> 0, registration_endpoint |-> None]

\* the upstream DCR endpoint __init__ settles on
discover_dcr_endpoint(disc, dcr_proxy_url) ==
    IF disc.kind = "exception"
    THEN (IF Truthy(dcr_proxy_url) THEN dcr_proxy_url ELSE None)
    ELSE IF disc.status = 200
    THEN (IF Truthy(disc.registration_endpoint) THEN disc.registration_endpoint
          ELSE IF Truthy(dcr_proxy_url) THEN dcr_proxy_url
          ELSE None)
    ELSE None

\* the DCR fields __init__ builds: management credentials (the secret file
\* overriding the configured secret when it exists), the secrets list merged
\* from the explicit or configured list, the configured file and the file of
\* captured secrets, and the upstream endpoint
OIDCAuthProvider_init_dcr(st, fs) ==
    LET cfg == st.config
        env == st.environ
        mgmt_client_id == Or(cfg.mgmt_client_id, env.AUTH0_MGMT_CLIENT_ID)
        configured_secret == Or(cfg.mgmt_client_secret, env.AUTH0_MGMT_CLIENT_SECRET)
        mgmt_client_secret ==
            IF Truthy(cfg.mgmt_client_secret_file) /\ st.mgmt_secret_file.some
            THEN st.mgmt_secret_file
            ELSE configured_secret
        listed == IF st.client_secrets # <<>> THEN st.client_secrets ELSE cfg.client_secrets
        from_file ==
            IF Truthy(cfg.client_secrets_file)
            THEN load_client_secrets_file(fs.configured).secrets
            ELSE <<>>
        extended == listed \o from_file
        merged ==
            IF fs.captured.exists THEN merge_new(extended, fs.captured.secrets) ELSE extended
        dcr_proxy_url == Or(Or(st.dcr_proxy_url, cfg.dcr_proxy_url), env.DCR_PROXY_URL)
    IN [mgmt_client_id |-> mgmt_client_id,
        mgmt_client_secret |-> mgmt_client_secret,
        client_secrets_file |-> cfg.client_secrets_file,
        dcr_proxy_url |-> dcr_proxy_url,
        upstream_dcr_endpoint |-> discover_dcr_endpoint(st.discovery, dcr_proxy_url),
        client_secrets |-> merged]

-----------------------------------------------------------------------------
(* JSON documents and HTTP bodies *)

\* the bytes of an HTTP body: their encoding (UTF-8 text, or bytes that are
\* no UTF-8), what the text is as JSON (an object, an array, null, malformed
\* text, nothing at all), the members of an object as written (a key may be
\* written twice), and the layout of the text
Bytes(enc, json, pairs, ws) == [enc |-> enc, json |-> json, pairs |-> pairs, ws |-> ws]
NoBody == Bytes("utf8", "empty", <<>>, "")

\* the values of JSON members and of headers: a string, the text of a body
\* (response.text), or a string built from atoms (str(e), str(n))
JStr(s) == [s |-> s, text |-> NoBody, msg |-> <<>>]
JText(b) == [s |-> "", text |-> b, msg |-> <<>>]
JMsg(m) == [s |-> "", text |-> NoBody, msg |-> m]

\* bool(v) of such a value
JTruthy(v) == v # JStr("")

\* a dict: its items in insertion order, as pairs <<key, value>>
HasKey(d, k) == \E i \in 1..Len(d) : d[i][1] = k

\* d.get(k): None when the key is missing
dict_get(d, k) ==
    IF HasKey(d, k)
    THEN [some |-> TRUE, v |-> d[CHOOSE i \in 1..Len(d) : d[i][1] = k][2]]
    ELSE [some |-> FALSE, v |-> JStr("")]

\* d[k] = v: the value is replaced where the key stands, a new key goes last
setitem(d, k, v) ==
    IF HasKey(d, k)
    THEN [i \in 1..Len(d) |-> IF d[i][1] = k THEN <<k, v>> ELSE d[i]]
    ELSE Append(d, <<k, v>>)

\* d.pop(k, None) and del d[k]
pop(d, k) == SelectSeq(d, LAMBDA item : item[1] # k)

RECURSIVE dict_of(_, _)
\* the dict json.loads builds from the members of an object: of a key
\* written twice the last value stays
dict_of(pairs, d) ==
    IF pairs = <<>> THEN d
    ELSE dict_of(Tail(pairs), setitem(d, Head(pairs)[1], Head(pairs)[2]))

\* json.loads(body): a dict, a value that is no dict, or an exception:
\* UnicodeDecodeError for bytes that are no UTF-8, JSONDecodeError for text
\* that is no JSON
json_loads(b) ==
    IF b.enc # "utf8"
    THEN [ok |-> FALSE, kind |-> "", dict |-> <<>>,
          exc |-> Exc("UnicodeDecodeError",
                      <<"'utf-8' codec can't decode byte 0xff in position 0: ",
                        "invalid start byte">>)]
    ELSE IF b.json = "malformed"
    THEN [ok |-> FALSE, kind |-> "", dict |-> <<>>,
          exc |-> Exc("JSONDecodeError",
                      <<"Expecting property name enclosed in double quotes: ",
                        "line 1 column 2 (char 1)">>)]
    ELSE IF b.json = "empty"
    THEN [ok |-> FALSE, kind |-> "", dict |-> <<>>,
          exc |-> Exc("JSONDecodeError", <<"Expecting value: ", "line 1 column 1 (char 0)">>)]
    ELSE IF b.json = "object"
    THEN [ok |-> TRUE, kind |-> "dict", dict |-> dict_of(b.pairs, <<>>), exc |-> NoExc]
    ELSE [ok |-> TRUE, kind |-> b.json, dict |-> <<>>, exc |-> NoExc]

\* json.dumps(d).encode('utf-8'): the text of the object in json's own layout
json_dumps(d) == Bytes("utf8", "object", d, "dumps")

\* len(body), in units: the braces, the members, the blanks of the layout
byte_len(b) ==
    CASE b.json = "object" ->
             2 + 8 * Len(b.pairs)
               + (IF b.ws = "dumps" THEN 2 * Len(b.pairs)
                  ELSE IF b.ws = "spaced" THEN 3 * Len(b.pairs) ELSE 0)
      [] b.json = "array" -> 2
      [] b.json = "null" -> 4
      [] b.json = "malformed" -> 1
      [] OTHER -> 0

\* the TypeError of d[k] = v for a value that is no dict
setitem_type_error(kind) ==
    IF kind = "array"
    THEN Exc("TypeError", <<"list indices must be integers or slices, not str">>)
    ELSE Exc("TypeError", <<"'NoneType' object does not support item assignment">>)

\* the AttributeError of d.get(k) for a value that is no dict
get_attribute_error(kind) ==
    IF kind = "array"
    THEN Exc("AttributeError", <<"'list' object has no attribute 'get'">>)
    ELSE Exc("AttributeError", <<"'NoneType' object has no attribute 'get'">>)

-----------------------------------------------------------------------------
(* register_client, the handler of POST /register *)

\* a JSONResponse of the handler: status, content, headers
DcrResponse(status, content, headers) ==
    [status |-> status, content |-> content, headers |-> headers]
NoDcrResponse == DcrResponse(0, <<>>, <<>>)

\* what a POST, GET or PATCH of the handler ends with: a response, or an
\* exception of the HTTP client (connection failure, timeout)
HttpResponse(status, body, headers) ==
    [kind |-> "response", status |-> status, body |-> body, headers |-> headers,
     exc |-> NoExc]
HttpRaises(e) ==
    [kind |-> "exception", status |-> 0, body |-> NoBody, headers |-> <<>>, exc |-> e]
NoHttp == [kind |-> "none", status |-> 0, body |-> NoBody, headers |-> <<>>, exc |-> NoExc]

\* the except clause of register_client: a 500 whose description is str(e)
server_error(e) ==
    DcrResponse(500, <<<<"error", JStr("server_error")>>,
                       <<"error_description", JMsg(e.msg)>>>>, <<>>)

\* the headers register_client removes before forwarding
hop_by_hop == <<"host", "connection", "keep-alive", "transfer-encoding">>

RECURSIVE pop_all(_, _)
\* the loop popping each of the keys ks
pop_all(d, ks) == IF ks = <<>> THEN d ELSE pop_all(pop(d, Head(ks)), Tail(ks))

\* register_forward leaving fields the client sent as they are
register_forward_keep_client_fields(body, headers) ==
    LET parsed == json_loads(body)
        keep(d, k, v) == IF HasKey(d, k) THEN d ELSE setitem(d, k, v)
        dcr_request ==
            keep(keep(keep(parsed.dict, "token_endpoint_auth_method", JStr("none")),
                      "application_type", JStr("native")),
                 "app_type", JStr("spa"))
        modified_body == json_dumps(dcr_request)
    IN IF parsed.ok /\ parsed.kind = "dict"
       THEN [ok |-> TRUE, exc |-> NoExc, body |-> modified_body,
             headers |-> pop_all(setitem(headers, "content-length",
                                         JMsg(int_digits(byte_len(modified_body)))),
                                 hop_by_hop)]
       ELSE IF parsed.ok
       THEN [ok |-> FALSE, exc |-> setitem_type_error(parsed.kind), body |-> NoBody,
             headers |-> <<>>]
       ELSE IF parsed.exc.type = "JSONDecodeError"
       THEN [ok |-> TRUE, exc |-> NoExc, body |-> body,
             headers |-> pop_all(headers, hop_by_hop)]
       ELSE [ok |-> FALSE, exc |-> parsed.exc, body |-> NoBody, headers |-> <<>>]

\* register_client up to its POST: the body is parsed, the three fields are
\* set and the dict is encoded again; a body json.loads rejects with
\* JSONDecodeError goes out as it came; any other exception leaves the try
\* block (ok FALSE); the hop-by-hop headers are dropped
register_forward(body, headers) ==
    LET parsed == json_loads(body)
        dcr_request ==
            setitem(setitem(setitem(parsed.dict, "token_endpoint_auth_method", JStr("none")),
                            "application_type", JStr("native")),
                    "app_type", JStr("spa"))
        modified_body == json_dumps(dcr_request)
    IN IF parsed.ok /\ parsed.kind = "dict"
       THEN [ok |-> TRUE, exc |-> NoExc, body |-> modified_body,
             headers |-> pop_all(setitem(headers, "content-length",
                                         JMsg(int_digits(byte_len(modified_body)))),
                                 hop_by_hop)]
       ELSE IF parsed.ok
       THEN [ok |-> FALSE, exc |-> setitem_type_error(parsed.kind), body |-> NoBody,
             headers |-> <<>>]
       ELSE IF parsed.exc.type = "JSONDecodeError"
       THEN [ok |-> TRUE, exc |-> NoExc, body |-> body,
             headers |-> pop_all(headers, hop_by_hop)]
       ELSE [ok |-> FALSE, exc |-> parsed.exc, body |-> NoBody, headers |-> <<>>]

\* _persist_dcr_secret writing the new secret alone
persist_dcr_secret_overwrite(fs, prx, client_secret, io) ==
    LET target == IF Truthy(prx.client_secrets_file) THEN "configured" ELSE "captured"
        existing_secrets == IF fs[target].exists THEN fs[target].secrets ELSE <<>>
    IN IF fs[target].exists /\ io = "read_error" THEN fs
       ELSE IF InList(existing_secrets, client_secret) THEN fs
       ELSE IF io = "write_error" THEN fs
       ELSE IF io = "dump_error" THEN [fs EXCEPT ![target] = File(<<>>)]
       ELSE [fs EXCEPT ![target] = File(<<client_secret>>)]

\* _persist_dcr_secret: the file it targets is read, the secret appended
\* unless present, and the file written again; an exception while reading
\* or writing is logged and swallowed.  A write can fail before the file is
\* opened (mkdir or open raising: write_error, the file stays) or after
\* open(path, 'w') truncated it (yaml.dump or the flush raising: dump_error,
\* the file is left empty).
persist_dcr_secret(fs, prx, client_secret, io) ==
    LET target == IF Truthy(prx.client_secrets_file) THEN "configured" ELSE "captured"
        existing_secrets == IF fs[target].exists THEN fs[target].secrets ELSE <<>>
    IN IF fs[target].exists /\ io = "read_error" THEN fs
       ELSE IF InList(existing_secrets, client_secret) THEN fs
       ELSE IF io = "write_error" THEN fs
       ELSE IF io = "dump_error" THEN [fs EXCEPT ![target] = File(<<>>)]
       ELSE [fs EXCEPT ![target] = File(Append(existing_secrets, client_secret))]

\* register_client on a 200 or 201 of the upstream: response.json(), the
\* secret (when truthy) appended to the in-memory list unless present and
\* handed to _persist_dcr_secret; then, with a management client id, the
\* update of the client type: it fails at once without a management secret
\* (the ValueError of _get_management_api_token) and asks for a token
\* otherwise
register_captured(o, mem, fs, prx, io) ==
    LET parsed == json_loads(o.body)
        client_data == parsed.dict
        client_secret == dict_get(client_data, "client_secret")
        captured == client_secret.some /\ JTruthy(client_secret.v)
    IN IF ~parsed.ok
       THEN [ok |-> FALSE, exc |-> parsed.exc, client_data |-> <<>>, captured |-> FALSE,
             secrets |-> mem, files |-> fs, next |-> "raise"]
       ELSE IF parsed.kind # "dict"
       THEN [ok |-> FALSE, exc |-> get_attribute_error(parsed.kind), client_data |-> <<>>,
             captured |-> FALSE, secrets |-> mem, files |-> fs, next |-> "raise"]
       ELSE [ok |-> TRUE, exc |-> NoExc, client_data |-> client_data, captured |-> captured,
             secrets |-> IF captured THEN append_new(mem, client_secret.v.s) ELSE mem,
             files |-> IF captured THEN persist_dcr_secret(fs, prx, client_secret.v.s, io)
                       ELSE fs,
             next |-> IF ~Truthy(prx.mgmt_client_id) THEN "no_update"
                      ELSE IF ~Truthy(prx.mgmt_client_secret) THEN "update_failed"
                      ELSE "mgmt_token"]

\* register_finish leaving the secret in the response after the update
register_finish_keep_secret(client_data, o, update_success) ==
    DcrResponse(o.status,
                IF update_success
                THEN setitem(setitem(client_data, "token_endpoint_auth_method", JStr("none")),
                             "app_type", JStr("native"))
                ELSE client_data,
                pop(o.headers, "content-length"))

\* the response of a successful registration: the upstream's status and
\* headers (content-length dropped) and its JSON, from which a successful
\* update of the client type removes client_secret and in which it sets
\* token_endpoint_auth_method and app_type
register_finish(client_data, o, update_success) ==
    DcrResponse(o.status,
                IF update_success
                THEN setitem(setitem(pop(client_data, "client_secret"),
                                     "token_endpoint_auth_method", JStr("none")),
                             "app_type", JStr("native"))
                ELSE client_data,
                pop(o.headers, "content-length"))

\* register_failed answering 502 for every upstream failure
register_failed_bad_gateway(o) ==
    DcrResponse(502, <<<<"error", JStr("registration_failed")>>,
                       <<"error_description", JText(o.body)>>>>, <<>>)

\* the response for an upstream status other than 200 and 201: the status,
\* and the upstream's text inside a registration_failed error
register_failed(o) ==
    DcrResponse(o.status, <<<<"error", JStr("registration_failed")>>,
                            <<"error_description", JText(o.body)>>>>, <<>>)

\* JSONResponse.render: the bytes of a response, the content as compact JSON
JSONResponse_render(resp) == Bytes("utf8", "object", resp.content, "compact")

\* _get_management_api_token got its token: raise_for_status passed and the
\* JSON holds access_token
token_granted(o) ==
    o.kind = "response" /\ o.status = 200 /\ HasKey(json_loads(o.body).dict, "access_token")

\* _update_client_type's verdict on the PATCH
patch_succeeded(o) == o.kind = "response" /\ o.status = 200

-----------------------------------------------------------------------------
(* get_metadata_routes: the metadata documents and the routes *)

\* what the GET of the issuer's discovery document ends with when
\* oauth_metadata asks for it: a response (its status, whether its body is
\* JSON, the two endpoints of the document) or an exception
ConfigResponse(status, json_ok, token_endpoint, authorization_endpoint) ==
    [kind |-> "response", status |-> status, json_ok |-> json_ok,
     token_endpoint |-> token_endpoint, authorization_endpoint |-> authorization_endpoint]
ConfigRaises ==
    [kind |-> "exception", status |-> 0, json_ok |-> FALSE,
     token_endpoint |-> None, authorization_endpoint |-> None]
NoConfig ==
    [kind |-> "none", status |-> 0, json_ok |-> FALSE,
     token_endpoint |-> None, authorization_endpoint |-> None]

\* upstream_config of oauth_metadata: the document of a 200 whose body is
\* JSON, the empty dict otherwise (the exception is caught)
upstream_config(o) ==
    IF o.kind = "response" /\ o.status = 200 /\ o.json_ok
    THEN [token_endpoint |-> o.token_endpoint,
          authorization_endpoint |-> o.authorization_endpoint]
    ELSE [token_endpoint |-> None, authorization_endpoint |-> None]

\* the endpoint derived from the issuer: Auth0's path when the issuer names
\* auth0.com, Keycloak's otherwise
endpoint_pattern(issuer, auth0_path, keycloak_path) ==
    IF Contains(issuer, "auth0.com") THEN issuer \o <<auth0_path>>
    ELSE issuer \o <<keycloak_path>>

\* a metadata document: the fields the claims speak of
Metadata(issuer, authorization_endpoint, token_endpoint, jwks_uri, scopes_supported, resource, registration_endpoint) ==
    [issuer |-> issuer, authorization_endpoint |-> authorization_endpoint,
     token_endpoint |-> token_endpoint, jwks_uri |-> jwks_uri,
     scopes_supported |-> scopes_supported, resource |-> resource,
     registration_endpoint |-> registration_endpoint]
NoMetadata == Metadata(None, None, None, None, <<>>, None, None)

\* advertised_issuer giving the public URL as it was configured
advertised_issuer_unstripped(prov) ==
    IF Truthy(prov.public_url) THEN prov.public_url ELSE prov.issuer

\* the issuer both documents advertise
advertised_issuer(prov) ==
    IF Truthy(prov.public_url) THEN Str(rstrip(prov.public_url.v, "/")) ELSE prov.issuer

\* registration_endpoint advertised whatever the startup found
registration_url_always(prov, prx) ==
    IF Truthy(prov.public_url) THEN Str(rstrip(prov.public_url.v, "/") \o <<"/register">>)
    ELSE Str(<<"/register">>)

\* the registration_endpoint both documents carry: none without an upstream
\* DCR endpoint, else /register, absolute when a public URL is configured
registration_url(prov, prx) ==
    IF ~Truthy(prx.upstream_dcr_endpoint) THEN None
    ELSE IF Truthy(prov.public_url)
    THEN Str(rstrip(prov.public_url.v, "/") \o <<"/register">>)
    ELSE Str(<<"/register">>)

\* oauth_metadata after its GET: the authorization-server document
oauth_metadata(prov, prx, o) ==
    LET cfg == upstream_config(o)
        token_endpoint ==
            Or(cfg.token_endpoint,
               Str(endpoint_pattern(prov.issuer.v, "/oauth/token",
                                    "/protocol/openid-connect/token")))
        authorization_endpoint ==
            Or(cfg.authorization_endpoint,
               Str(endpoint_pattern(prov.issuer.v, "/authorize",
                                    "/protocol/openid-connect/auth")))
        scopes_supported ==
            LET required == IF Truthy(prov.required_scope) THEN <<prov.required_scope.v>>
                            ELSE <<>>
            IN IF InList(required, <<"openid">>) THEN required
               ELSE Append(required, <<"openid">>)
    IN Metadata(advertised_issuer(prov), authorization_endpoint, token_endpoint,
                prov.jwks_uri, scopes_supported, None, registration_url(prov, prx))

\* protected_resource_metadata: the protected-resource document (its
\* authorization_servers list has the one entry kept in the issuer field)
protected_resource_metadata(prov, prx) ==
    Metadata(advertised_issuer(prov), None, None, None,
             IF Truthy(prov.required_scope) THEN <<prov.required_scope.v>>
             ELSE <<<<"openid">>>>,
             prov.audience, registration_url(prov, prx))

\* the paths of the routes get_metadata_routes returns
get_metadata_routes(prx) ==
    <<<<"/.well-known/", "oauth-authorization-server">>,
      <<"/.well-known/", "oauth-protected-resource">>>>
        \o (IF Truthy(prx.upstream_dcr_endpoint) THEN <<<<"/register">>>> ELSE <<>>)

-----------------------------------------------------------------------------
(* The inputs the model draws from *)

Idp == <<"https://idp">>
Gateway == <<"https://gw">>
Slash == <<"/">>
AudienceA == <<"A">>
User == Str(<<"user1">>)

JwksUri == <<"https://idp", "/jwks.json">>

\* a constructor call that names issuer and audience explicitly
Args(issuer, public_url, required_scope) ==
    [issuer |-> issuer, audience |-> Passed(Str(AudienceA)), jwks_uri |-> NotPassed,
     public_url |-> public_url, required_scope |-> required_scope]
ConfigFile(scope) ==
    [issuer |-> None, audience |-> None, jwks_uri |-> None, public_url |-> None,
     scope |-> scope]
\* the environment names the JWKS URI, so that no discovery is needed
Environ(scope) ==
    [OIDC_ISSUER |-> None, OIDC_AUDIENCE |-> None, OIDC_JWKS_URI |-> Str(JwksUri),
     PUBLIC_URL |-> None, OIDC_SCOPE |-> scope]
\* the discovery document the identity provider serves
Discovery == {[jwks_uri |-> Str(JwksUri)]}

\* the deployments of the middleware specification
Deployments ==
    {<<Args(Passed(Str(Idp \o Slash)), pub, scope), ConfigFile(None), Environ(None)>> :
        pub \in {NotPassed, Passed(Str(Gateway \o Slash))},
        scope \in {NotPassed, Passed(None)}}

\* the deployments of the verify_token specification: the issuer is a URL
\* written with or without its trailing slash, the public URL is left out,
\* another URL, or the issuer's own
VerifyDeployments ==
    {<<Args(Passed(Str(iss)), pub, scope), ConfigFile(fscope), Environ(None)>> :
        iss \in {Idp, Idp \o Slash},
        pub \in {NotPassed, Passed(Str(Gateway \o Slash)), Passed(Str(Idp))},
        scope \in {NotPassed, Passed(None)},
        fscope \in {None, Str(<<"mcp:read">>)}}

\* the exclude_paths arguments: left out (the default list), and the list
\* the server entry point passes
ExcludeArgs == {<<>>, <<<<"/healthz">>, <<"/readyz">>>>}

\* the paths requested: a protected route, excluded endpoints, and routes
\* whose path begins with the text of an excluded endpoint
Paths == {<<"/mcp">>, <<"/healthz">>, <<"/.well-known/", "oauth-protected-resource">>,
          <<"/register">>, <<"/register", "X">>, <<"/healthz", "-admin">>}

\* key ids, and the JWKS documents the identity provider serves
JwksDocs == {Jwks({"k1"}), Jwks({"k1", "k2"})}
FetchOutcomes ==
    {FetchOk(d) : d \in JwksDocs} \cup {FetchFail(k) : k \in {"http_status", "network", "bad_json"}}

\* payloads: every combination of issuer, audience and scope claims
IssClaims == {None, Str(Idp \o Slash), Str(Gateway), Str(<<"https://evil">>), Str(Slash)}
AudClaims == {Absent, Scalar(AudienceA), Scalar(<<"C">>), List(<<AudienceA, <<"B">>>>),
              List(<<<<"B">>>>)}
ScopeClaims == {Absent, Scalar(<<"mcp:read">>), Scalar(<<"openid", " ", "mcp:read">>)}
Payloads ==
    {Claims(i, a, s, User, NoExp) : i \in IssClaims, a \in AudClaims, s \in ScopeClaims}

\* a payload that satisfies the small deployments, with and without the
\* optional claims
GoodClaims(sub, exp) ==
    Claims(Str(Idp), Scalar(AudienceA), Scalar(<<"openid", " ", "mcp:read">>), sub, exp)

\* how long a token may be, in atoms, among the strings of dots and text
MaxTokenLen == 4

\* all strings of at most n atoms over a dot and an opaque piece of text
TokenStrings(n) == UNION {[1..k -> {Dot, W("x")}] : k \in 0..n}

\* a JWE compact serialisation: five opaque segments
JweToken == <<W("x"), Dot, W("x"), Dot, W("x"), Dot, W("x"), Dot, W("x")>>

\* signed tokens that fail in the library: bad signature, unknown key, a key
\* of the second document only, expired, with an expiry still ahead, no sub
OddTokens ==
    {Jwt("k1", GoodClaims(User, NoExp), "k9"),
     Jwt("k3", GoodClaims(User, NoExp), "k3"),
     Jwt("k2", GoodClaims(User, NoExp), "k2"),
     Jwt("k1", GoodClaims(User, Exp(StartTime - 1)), "k1"),
     Jwt("k1", GoodClaims(User, Exp(StartTime + 1)), "k1"),
     Jwt("k1", GoodClaims(None, NoExp), "k1"),
     Jwt("k1", Claims(Str(<<"https://evil">>), Scalar(<<"C">>), Absent, User, NoExp), "k9"),
     Jwt("k1", Claims(Str(<<"https://evil">>), Scalar(<<"C">>), Absent, User,
                      Exp(StartTime - 1)), "k1")}

\* the tokens verify_token is called with directly
VerifyTokens ==
    {Jwt("k1", c, "k1") : c \in Payloads} \cup OddTokens \cup TokenStrings(MaxTokenLen)
        \cup {JweToken, JweToken \o <<Dot, W("x")>>}

\* the tokens requests carry
RequestTokens ==
    OddTokens \cup
    {Jwt("k1", GoodClaims(User, NoExp), "k1"),
     Jwt("k1", Claims(Str(<<"https://evil">>), Scalar(AudienceA), Absent, User, NoExp), "k1"),
     Jwt("k1", Claims(Str(Idp), Scalar(<<"C">>), Scalar(<<"openid">>), User, NoExp), "k1"),
     Jwt("k1", Claims(Str(Idp), Scalar(AudienceA), Scalar(<<"mcp:read">>), User, NoExp), "k1"),
     JweToken, <<W("x")>>, <<Dot, Dot>>, <<W("x"), Dot, W("x"), Dot, W("x"), Dot, W("x")>>}

\* the Authorization headers of requests
Authorizations ==
    {NoHeader, Header(<<>>), Header(<<Sp>>), Header(<<W("Bearer")>>),
     Header(<<W("Basic"), Sp, W("x")>>), Header(<<W("Bearer"), Sp, W("x"), Sp, W("x")>>),
     Header(<<W("bearer"), Sp, Sp>> \o Jwt("k1", GoodClaims(User, NoExp), "k1") \o <<Sp>>)}
        \cup {Header(<<W("Bearer"), Sp>> \o t) : t \in RequestTokens}

\* what the downstream handler of call_next can end with
DownstreamOutcomes ==
    {Return(NoClaims), Raise(Exc("ValueError", <<"Missing", " argument">>)),
     Raise(Exc("ValueError", <<"invalid literal">>)), Raise(Exc("Exception", <<"boom">>))}


\* what __init__ reads for the DCR proxy
DcrConfig(mgmt_client_id, mgmt_client_secret, mgmt_client_secret_file, client_secrets_file) ==
    [mgmt_client_id |-> mgmt_client_id, mgmt_client_secret |-> mgmt_client_secret,
     mgmt_client_secret_file |-> mgmt_client_secret_file, client_secrets |-> <<>>,
     client_secrets_file |-> client_secrets_file, dcr_proxy_url |-> None]
DcrEnviron(mgmt_client_id) ==
    [AUTH0_MGMT_CLIENT_ID |-> mgmt_client_id, AUTH0_MGMT_CLIENT_SECRET |-> None,
     DCR_PROXY_URL |-> None]
Startup(cfg, env, secrets_arg, dcr_proxy_url, mgmt_secret_file, discovery) ==
    [config |-> cfg, environ |-> env, client_secrets |-> secrets_arg,
     dcr_proxy_url |-> dcr_proxy_url, mgmt_secret_file |-> mgmt_secret_file,
     discovery |-> discovery]

RegistrationEndpoint == Str(<<"https://idp", "/oidc/register">>)
ProxyUrl == Str(<<"https://dcr-proxy">>)
SecretsPath == Str(<<"/etc/mcp/secrets/client-secrets.yaml">>)
MgmtSecretPath == Str(<<"/etc/mcp/secrets/mgmt">>)

\* a provider without DCR configuration whose discovery names no
\* registration endpoint: /register is not mounted
NoDcrStartup ==
    Startup(DcrConfig(None, None, None, None), DcrEnviron(None), <<>>, None, None,
            DiscoveryOk(200, None))
NoFiles == [configured |-> NoFile, captured |-> NoFile]

\* the management credentials of a deployment: none, a client id without a
\* secret, id and secret in the config file, the secret in a mounted file
MgmtSetups ==
    {<<None, None, None, None, None>>,
     <<None, None, None, Str(<<"m">>), None>>,
     <<Str(<<"m">>), Str(<<"ms">>), None, None, None>>,
     <<Str(<<"m">>), None, MgmtSecretPath, None, Str(<<"ms">>)>>}

\* the secret stores of a deployment: the client_secrets argument, the
\* configured secrets file (its path and content) and the file of captured
\* secrets
StoreSetups ==
    {<<<<>>, None, NoFile, NoFile>>,
     <<<<>>, None, NoFile, File(<<"s1">>)>>,
     <<<<"s0">>, SecretsPath, File(<<"s1">>), NoFile>>,
     <<<<"s1">>, SecretsPath, File(<<"s1">>), File(<<"s1", "s2">>)>>}

\* the deployments of the registration specification, as pairs of what
\* __init__ read and the files it found
RegisterDeployments ==
    {<<Startup(DcrConfig(m[1], m[2], m[3], st[2]), DcrEnviron(m[4]), st[1], None, m[5],
               DiscoveryOk(200, RegistrationEndpoint)),
       [configured |-> st[3], captured |-> st[4]]>> : m \in MgmtSetups, st \in StoreSetups}
    \cup {<<Startup(DcrConfig(None, None, None, None), DcrEnviron(None), <<>>, ProxyUrl, None,
                    DiscoveryRaises), NoFiles>>}

\* the bodies of POST /register
Uris == <<"redirect_uris", JStr("[\"https://x\"]")>>
RegisterBodies ==
    {Bytes("utf8", "object", <<Uris>>, "spaced"),
     Bytes("utf8", "object", <<>>, "compact"),
     Bytes("utf8", "object",
           <<<<"app_type", JStr("regular_web")>>, Uris,
             <<"token_endpoint_auth_method", JStr("client_secret_post")>>,
             <<"application_type", JStr("web")>>>>, "compact"),
     Bytes("utf8", "object",
           <<<<"client_name", JStr("a")>>, Uris, <<"client_name", JStr("b")>>>>, "dumps"),
     Bytes("utf8", "array", <<>>, "compact"),
     Bytes("utf8", "null", <<>>, "compact"),
     Bytes("utf8", "malformed", <<>>, "compact"),
     Bytes("utf8", "empty", <<>>, ""),
     Bytes("binary", "malformed", <<>>, "")}

\* the headers a request with this body arrives with
InboundHeaders(body) ==
    <<<<"host", JStr("gateway")>>, <<"content-type", JStr("application/json")>>,
      <<"content-length", JMsg(int_digits(byte_len(body)))>>,
      <<"connection", JStr("keep-alive")>>>>

\* the upstream's registration responses
ClientData(secret) ==
    <<<<"client_id", JStr("c1")>>, <<"client_name", JStr("Claude")>>>>
        \o (IF secret = "" THEN <<>> ELSE <<<<"client_secret", JStr(secret)>>>>)
        \o <<<<"token_endpoint_auth_method", JStr("client_secret_post")>>>>
UpstreamHeaders(body) ==
    <<<<"content-type", JStr("application/json")>>,
      <<"content-length", JMsg(int_digits(byte_len(body)))>>>>
Upstream(status, body) == HttpResponse(status, body, UpstreamHeaders(body))
RegisterOutcomes ==
    {Upstream(st, Bytes("utf8", "object", ClientData(sec), "compact")) :
        st \in {200, 201, 202}, sec \in {"s1", "s2"}}
    \cup {Upstream(201, Bytes("utf8", "object", ClientData(""), "compact")),
          Upstream(200, Bytes("utf8", "malformed", <<>>, "compact")),
          Upstream(201, Bytes("utf8", "array", <<>>, "compact")),
          Upstream(400, Bytes("utf8", "object",
                              <<<<"error", JStr("invalid_redirect_uri")>>>>, "compact")),
          Upstream(503, Bytes("utf8", "malformed", <<>>, "compact")),
          HttpRaises(Exc("ConnectError", <<"All connection attempts failed">>)),
          HttpRaises(Exc("ReadTimeout", <<>>))}

\* how reading and writing the secrets file can end
FileOutcomes == {"ok", "read_error", "write_error", "dump_error"}

\* the management API's answers to the token request and to the PATCH
TokenOutcomes ==
    {HttpResponse(200, Bytes("utf8", "object", <<<<"access_token", JStr("t")>>>>, "compact"),
                  <<>>),
     HttpResponse(200, Bytes("utf8", "object", <<<<"error", JStr("denied")>>>>, "compact"),
                  <<>>),
     HttpResponse(401, Bytes("utf8", "object", <<<<"error", JStr("access_denied")>>>>,
                             "compact"), <<>>),
     HttpRaises(Exc("ConnectTimeout", <<>>))}
PatchOutcomes ==
    {HttpResponse(200, Bytes("utf8", "object", <<<<"client_id", JStr("c1")>>>>, "compact"),
                  <<>>),
     HttpResponse(403, Bytes("utf8", "object", <<<<"error", JStr("insufficient_scope")>>>>,
                             "compact"), <<>>),
     HttpRaises(Exc("ReadTimeout", <<>>))}


\* an Auth0 tenant as issuer, and the endpoints discovery documents name
Auth0Idp == <<"https://tenant.", "auth0.com">>
TokenEndpoint == Str(<<"https://idp", "/token">>)
AuthorizationEndpoint == Str(<<"https://idp", "/auth">>)

\* the deployments of the metadata specification: a Keycloak-like or an
\* Auth0 issuer; no public URL, or one written with or without its trailing
\* slash; with and without a required scope
MetadataDeployments ==
    {<<Args(Passed(Str(iss)), pub, scope), ConfigFile(None), Environ(None)>> :
        iss \in {Idp, Auth0Idp},
        pub \in {NotPassed, Passed(Str(Gateway)), Passed(Str(Gateway \o Slash))},
        scope \in {Passed(None), Passed(Str(<<"mcp:read">>))}}

\* what the startup found for the DCR proxy: the discovery document with or
\* without a registration_endpoint, a refusal, or no answer; with or
\* without a configured DCR proxy URL
MetadataDcrDeployments ==
    {<<Startup(DcrConfig(None, None, None, None), DcrEnviron(None), <<>>, url, None, disc),
       NoFiles>> :
        url \in {None, ProxyUrl},
        disc \in {DiscoveryOk(200, RegistrationEndpoint), DiscoveryOk(200, None),
                  DiscoveryOk(503, None), DiscoveryRaises}}

\* how the GET of the discovery document ends when oauth_metadata asks
ConfigOutcomes ==
    {ConfigResponse(200, TRUE, TokenEndpoint, AuthorizationEndpoint),
     ConfigResponse(200, TRUE, TokenEndpoint, None),
     ConfigResponse(200, TRUE, None, None),
     ConfigResponse(200, FALSE, None, None),
     ConfigResponse(404, TRUE, None, None),
     ConfigRaises}

-----------------------------------------------------------------------------
(* The state machine *)

NoRequest ==
    [path |-> <<>>, authorization |-> NoHeader,
     state |-> [set |-> FALSE, auth_claims |-> NoClaims, user_id |-> None]]
NoVerify ==
    [called |-> FALSE, current_time |-> 0, finished |-> FALSE, jwks |-> NoJwks,
     outcome |-> Raise(NoExc)]
\* verify: whether verify_token was called, the time it read, whether it has
\* ended and with what, and the key set get_jwks gave it
\* the counters of one operation: JWKS fetches issued, calls of
\* _decrypt_jwe_token, calls of the downstream handler, the cache entry the
\* operation started with, and how the HTTP GET of get_jwks ended
NewHist(cache) ==
    [fetches |-> 0, decrypts |-> 0, downstream |-> 0, cache0 |-> cache, fetch |-> "none"]

\* the state after construction of the provider and the middleware
InitWith(deployments) ==
    \E d \in deployments, doc \in Discovery, ex \in ExcludeArgs :
        /\ ctor = d[1]
        /\ config = d[2]
        /\ environ = d[3]
        /\ upstream = doc
        /\ OIDCAuthProvider_init(d[1], d[2], d[3], doc).ok
        /\ provider = OIDCAuthProvider_init(d[1], d[2], d[3], doc)
        /\ exclude_paths = OIDCAuthMiddleware_init(ex)
        /\ jwks_cache = [jwks |-> NoJwks, last_fetch |-> 0]
        /\ now = StartTime
        /\ op = "none"
        /\ pc = "idle"
        /\ request = NoRequest
        /\ token = <<>>
        /\ verify = NoVerify
        /\ result = NoResult
        /\ hist = NewHist([jwks |-> NoJwks, last_fetch |-> 0])

\* the registration in flight: the inbound body and headers, what was
\* forwarded, the outbound calls made and how they ended, the response, and
\* the secret stores the request started with
NoReg(mem, fs) ==
    [inbound |-> NoBody, headers |-> <<>>, sent |-> FALSE, forwarded |-> NoBody,
     forwarded_headers |-> <<>>, posts |-> 0, upstream |-> NoHttp, client_data |-> <<>>,
     persist_calls |-> 0, persist_io |-> "none", token_requests |-> 0, patches |-> 0,
     token |-> NoHttp, patch |-> NoHttp, update |-> "none", response |-> NoDcrResponse,
     exc |-> NoExc, secrets0 |-> mem, files0 |-> fs]

\* the client secrets the decryptor is given: a base64url text of 32 bytes
\* (Auth0's format), texts of exactly 32 and of 40 bytes, and short ones
DecryptSecrets == {"b64-of-32-bytes", "text-of-32-bytes", "text-of-40-bytes", "s1"}

\* the secret stores of the decryptor: none, one or two secrets
DecryptStores ==
    {<<>>} \cup {<<a>> : a \in DecryptSecrets}
           \cup {st \in {<<a, b>> : a \in DecryptSecrets, b \in DecryptSecrets} :
                    st[1] # st[2]}

DecryptDeployments ==
    {<<Startup(DcrConfig(None, None, None, None), DcrEnviron(None), st, None, None,
               DiscoveryOk(200, None)),
       NoFiles>> : st \in DecryptStores}

\* the keys JWE tokens are encrypted with: every derivation of every secret,
\* and a key no secret yields
JweKeys ==
    {KeyBytes(a, form) : a \in DecryptSecrets, form \in {"b64", "sha256", "utf8", "utf8[:32]"}}
        \cup {KeyBytes("other", "sha256")}

\* the JWE tokens presented: a JSON object of claims or a signed JWT inside
JweTokens ==
    {Jwe(key, content, Claims(Str(Idp), Scalar(AudienceA), Absent, User, NoExp)) :
        key \in JweKeys, content \in {"json", "jwt"}}

\* the metadata request in flight: which document, the discovery GETs made
\* for it and how the GET ended, and the document returned
NoMeta == [fetches |-> 0, config |-> NoConfig, response |-> NoMetadata]

\* the _decrypt_jwe_token call in flight: its token and the keys it tried
NoJwe == [called |-> FALSE, token |-> Jwe(KeyBytes("", ""), "", NoClaims), attempts |-> <<>>]

\* the coroutines that call get_jwks concurrently
Callers == {"c1", "c2", "c3"}

\* a get_jwks coroutine: where it is, the time it read, the cache entry it
\* saw on entry, whether that entry was valid, and what it returned
NoCall ==
    [pc |-> "idle", current_time |-> 0, observed |-> [jwks |-> NoJwks, last_fetch |-> 0],
     hit |-> FALSE, jwks |-> NoJwks, exc |-> NoExc]

\* no coroutine runs, and no fetch has written the cache yet; last_write
\* is the key set and the time of the fetch that completed last
NoCalls == [of |-> [c \in Callers |-> NoCall], last_write |-> <<>>]

\* run_plugin_tests before it is called: no plugins, no results
NoRunner ==
    [pc |-> "idle", plugins |-> <<>>, results |-> <<>>, executed |-> <<>>, passed |-> 0,
     failed |-> 0, failed_tests |-> {}, exit_code |-> -1]

\* the ArtifactStore after construction: nothing stored, nothing called
NoArtifacts ==
    [store |-> <<>>, op |-> "none", project_id |-> <<>>, path |-> <<>>, content |-> "",
     uri |-> <<>>, got |-> [some |-> FALSE, v |-> ""]]

\* the register_client coroutines of concurrent requests
Registrants == {"r1", "r2", "r3"}

\* a register_client coroutine: where it is, the upstream's response, the
\* secret it captured ("" for none) and the status it answered with
NoRegistration == [pc |-> "idle", upstream |-> NoHttp, captured |-> "", status |-> 0]

\* no request is in flight, and no secret has been captured since startup
NoRegistrations == [of |-> [r \in Registrants |-> NoRegistration], captured |-> {}]

\* the DCR proxy's state after construction of the provider
InitDcr(deployments) ==
    \E d \in deployments :
        /\ startup = d[1]
        /\ files = d[2]
        /\ proxy = [f \in (DOMAIN OIDCAuthProvider_init_dcr(d[1], d[2])) \ {"client_secrets"}
                       |-> OIDCAuthProvider_init_dcr(d[1], d[2])[f]]
        /\ client_secrets = OIDCAuthProvider_init_dcr(d[1], d[2]).client_secrets
        /\ reg = NoReg(client_secrets, files)
        /\ meta = NoMeta
        /\ jwe = NoJwe
        /\ calls = NoCalls
        /\ runner = NoRunner
        /\ artifacts = NoArtifacts
        /\ registrations = NoRegistrations

Init == InitWith(Deployments) /\ InitDcr({<<NoDcrStartup, NoFiles>>})
InitVerify ==
    /\ InitWith(VerifyDeployments) /\ exclude_paths = default_exclude_paths
    /\ InitDcr({<<NoDcrStartup, NoFiles>>})

\* verify_token(tok) up to its first await: it has raised or returned
\* (await FALSE), or it waits for the HTTP GET of get_jwks (await TRUE)
verify_token_call(tok) ==
    LET b == verify_token_begin(tok)
    IN IF b.next = "raise"
       THEN [await |-> FALSE, outcome |-> Raise(b.exc), decrypts |-> b.decrypts,
             jwks |-> NoJwks]
       ELSE IF jwks_cache_valid(jwks_cache, now)
       THEN [await |-> FALSE, decrypts |-> b.decrypts, jwks |-> jwks_cache.jwks,
             outcome |-> verify_token_end(tok, jwks_cache.jwks, now, provider)]
       ELSE [await |-> TRUE, outcome |-> Raise(NoExc), decrypts |-> b.decrypts,
             jwks |-> NoJwks]

\* dispatch_authenticated calling the downstream handler also after a
\* ValueError of authenticate_request
dispatch_authenticated_lenient(outcome) ==
    IF outcome.ok \/ outcome.exc.type = "ValueError"
    THEN [pc |-> "call_next",
          state |-> [set |-> TRUE, auth_claims |-> outcome.claims,
                     user_id |-> outcome.claims.sub],
          result |-> NoResult]
    ELSE [pc |-> "done", state |-> NoRequest.state, result |-> error_response(outcome.exc)]

\* dispatch after authenticate_request ended with `outcome`: the claims go
\* into request.state and the downstream handler is called, or the exception
\* is turned into a response
dispatch_authenticated(outcome) ==
    IF outcome.ok
    THEN [pc |-> "call_next",
          state |-> [set |-> TRUE, auth_claims |-> outcome.claims,
                     user_id |-> outcome.claims.sub],
          result |-> NoResult]
    ELSE [pc |-> "done", state |-> NoRequest.state, result |-> error_response(outcome.exc)]

\* a direct call of provider.verify_token(tok)
CallVerifyToken(tok) ==
    /\ pc = "idle"
    /\ LET r == verify_token_call(tok)
       IN /\ op' = "verify_token"
          /\ token' = tok
          /\ request' = NoRequest
          /\ verify' = [called |-> TRUE, current_time |-> now, finished |-> ~r.await,
                        jwks |-> r.jwks, outcome |-> r.outcome]
          /\ hist' = [NewHist(jwks_cache) EXCEPT !.fetches = IF r.await THEN 1 ELSE 0,
                                                 !.decrypts = r.decrypts]
          /\ pc' = IF r.await THEN "jwks_fetch" ELSE "done"
          /\ result' = IF r.await THEN NoResult
                       ELSE IF r.outcome.ok THEN Returned(r.outcome.claims)
                       ELSE Raised(r.outcome.exc)
    /\ UNCHANGED <<ctor, config, environ, upstream, provider, exclude_paths, jwks_cache, now>>
    /\ UNCHANGED dcr_vars

\* OIDCAuthMiddleware.dispatch for a request, up to its first await
Dispatch(path, auth) ==
    /\ pc = "idle"
    /\ op' = "dispatch"
    /\ LET h == authenticate_request_header(auth)
           r == verify_token_call(h.token)
           a == dispatch_authenticated(r.outcome)
       IN IF is_excluded(path, exclude_paths)
          THEN /\ pc' = "call_next"
               /\ request' = [NoRequest EXCEPT !.path = path, !.authorization = auth]
               /\ token' = <<>>
               /\ verify' = NoVerify
               /\ hist' = [NewHist(jwks_cache) EXCEPT !.downstream = 1]
               /\ result' = NoResult
          ELSE IF ~h.ok
          THEN /\ pc' = "done"
               /\ request' = [NoRequest EXCEPT !.path = path, !.authorization = auth]
               /\ token' = <<>>
               /\ verify' = NoVerify
               /\ hist' = NewHist(jwks_cache)
               /\ result' = error_response(h.exc)
          ELSE IF r.await
          THEN /\ pc' = "jwks_fetch"
               /\ request' = [NoRequest EXCEPT !.path = path, !.authorization = auth]
               /\ token' = h.token
               /\ verify' = [called |-> TRUE, current_time |-> now, finished |-> FALSE,
                             jwks |-> r.jwks, outcome |-> r.outcome]
               /\ hist' = [NewHist(jwks_cache) EXCEPT !.fetches = 1, !.decrypts = r.decrypts]
               /\ result' = NoResult
          ELSE /\ pc' = a.pc
               /\ request' = [path |-> path, authorization |-> auth, state |-> a.state]
               /\ token' = h.token
               /\ verify' = [called |-> TRUE, current_time |-> now, finished |-> TRUE,
                             jwks |-> r.jwks, outcome |-> r.outcome]
               /\ hist' = [NewHist(jwks_cache) EXCEPT
                               !.decrypts = r.decrypts,
                               !.downstream = IF a.pc = "call_next" THEN 1 ELSE 0]
               /\ result' = a.result
    /\ UNCHANGED <<ctor, config, environ, upstream, provider, exclude_paths, jwks_cache, now>>
    /\ UNCHANGED dcr_vars

\* the HTTP GET of get_jwks ends: on success the cache entry is replaced and
\* verify_token goes on; on failure the exception leaves get_jwks
JwksFetchReturn(o) ==
    /\ pc = "jwks_fetch"
    /\ LET g == get_jwks_fetched(jwks_cache, verify.current_time, o)
           outcome == IF g.ok THEN verify_token_end(token, g.jwks, now, provider)
                      ELSE Raise(g.exc)
           a == dispatch_authenticated(outcome)
       IN /\ jwks_cache' = g.cache
          /\ verify' = [verify EXCEPT !.finished = TRUE, !.outcome = outcome,
                                       !.jwks = g.jwks]
          /\ IF op = "verify_token"
             THEN /\ pc' = "done"
                  /\ result' = IF outcome.ok THEN Returned(outcome.claims)
                               ELSE Raised(outcome.exc)
                  /\ hist' = [hist EXCEPT !.fetch = o.kind]
                  /\ UNCHANGED request
             ELSE /\ pc' = a.pc
                  /\ request' = [request EXCEPT !.state = a.state]
                  /\ result' = a.result
                  /\ hist' = [hist EXCEPT !.fetch = o.kind,
                                          !.downstream = IF a.pc = "call_next" THEN 1 ELSE 0]
    /\ UNCHANGED <<ctor, config, environ, upstream, provider, exclude_paths, now, op, token>>
    /\ UNCHANGED dcr_vars

\* the downstream handler ends: its response is returned; its exception is
\* caught by the try block, or leaves dispatch when the path was excluded
DownstreamReturn(o) ==
    /\ pc = "call_next"
    /\ pc' = "done"
    /\ result' = IF o.ok THEN Response(200, "", <<>>, <<>>, "downstream")
                 ELSE IF is_excluded(request.path, exclude_paths) THEN Raised(o.exc)
                 ELSE error_response(o.exc)
    /\ UNCHANGED <<ctor, config, environ, upstream, provider, exclude_paths, jwks_cache, now,
                   op, request, token, verify, hist>>
    /\ UNCHANGED dcr_vars

\* the operation's result has gone to its caller: the provider and the
\* middleware are idle again, the cache entry stays
Finish ==
    /\ pc = "done"
    /\ pc' = "idle"
    /\ op' = "none"
    /\ request' = NoRequest
    /\ token' = <<>>
    /\ verify' = NoVerify
    /\ result' = NoResult
    /\ hist' = NewHist(jwks_cache)
    /\ reg' = NoReg(client_secrets, files)
    /\ meta' = NoMeta
    /\ jwe' = NoJwe
    /\ UNCHANGED <<ctor, config, environ, upstream, provider, exclude_paths, jwks_cache, now>>
    /\ UNCHANGED <<startup, proxy, client_secrets, files, calls, tool_vars>>

\* time passes
Tick ==
    /\ now < StartTime + MaxTicks * TickStep
    /\ now' = now + TickStep
    /\ UNCHANGED <<ctor, config, environ, upstream, provider, exclude_paths, jwks_cache,
                   op, pc, request, token, verify, result, hist>>
    /\ UNCHANGED dcr_vars

Next ==
    \/ \E path \in Paths, auth \in Authorizations : Dispatch(path, auth)
    \/ \E o \in FetchOutcomes : JwksFetchReturn(o)
    \/ \E o \in DownstreamOutcomes : DownstreamReturn(o)
    \/ Finish
    \/ Tick

Spec == Init /\ [][Next]_vars

NextVerify ==
    \/ \E tok \in VerifyTokens : CallVerifyToken(tok)
    \/ \E o \in FetchOutcomes : JwksFetchReturn(o)
    \/ Finish

SpecVerify == InitVerify /\ [][NextVerify]_vars

\* POST /register arrives: register_client runs up to its POST to the
\* upstream, or to its except clause.  The route exists only when
\* get_metadata_routes mounted it.
Register(body) ==
    /\ pc = "idle"
    /\ InList(get_metadata_routes(proxy), <<"/register">>)
    /\ op' = "register"
    /\ LET f == register_forward(body, InboundHeaders(body))
           r == [NoReg(client_secrets, files) EXCEPT
                     !.inbound = body, !.headers = InboundHeaders(body)]
       IN IF f.ok
          THEN /\ pc' = "dcr_post"
               /\ reg' = [r EXCEPT !.sent = TRUE, !.forwarded = f.body,
                                   !.forwarded_headers = f.headers, !.posts = 1]
          ELSE /\ pc' = "done"
               /\ reg' = [r EXCEPT !.exc = f.exc, !.response = server_error(f.exc)]
    /\ UNCHANGED <<ctor, config, environ, upstream, provider, exclude_paths, jwks_cache, now,
                   request, token, verify, result, hist>>
    /\ UNCHANGED <<startup, proxy, client_secrets, files, meta, jwe, calls, tool_vars>>

\* the upstream's answer to the POST arrives (or the POST raises), and
\* register_client runs on: to its response, or to the token request of
\* _update_client_type.  io is how the secrets file behaves when
\* _persist_dcr_secret reads and writes it.
DcrPostReturn(o, io) ==
    /\ pc = "dcr_post"
    /\ LET c == register_captured(o, client_secrets, files, proxy, io)
           r == [reg EXCEPT !.upstream = o]
       IN IF o.kind = "exception"
          THEN /\ pc' = "done"
               /\ reg' = [r EXCEPT !.exc = o.exc, !.response = server_error(o.exc)]
               /\ UNCHANGED <<client_secrets, files>>
          ELSE IF o.status \notin {200, 201}
          THEN /\ pc' = "done"
               /\ reg' = [r EXCEPT !.response = register_failed(o)]
               /\ UNCHANGED <<client_secrets, files>>
          ELSE IF ~c.ok
          THEN /\ pc' = "done"
               /\ reg' = [r EXCEPT !.exc = c.exc, !.response = server_error(c.exc)]
               /\ UNCHANGED <<client_secrets, files>>
          ELSE /\ client_secrets' = c.secrets
               /\ files' = c.files
               /\ LET r2 == [r EXCEPT !.client_data = c.client_data,
                                      !.persist_calls = IF c.captured THEN 1 ELSE 0,
                                      !.persist_io = IF c.captured THEN io ELSE "none"]
                  IN IF c.next = "mgmt_token"
                     THEN /\ pc' = "mgmt_token"
                          /\ reg' = [r2 EXCEPT !.token_requests = @ + 1]
                     ELSE /\ pc' = "done"
                          /\ reg' = [r2 EXCEPT
                                        !.update = IF c.next = "no_update" THEN "skipped"
                                                   ELSE "failed",
                                        !.response = register_finish(c.client_data, o, FALSE)]
    /\ UNCHANGED <<ctor, config, environ, upstream, provider, exclude_paths, jwks_cache, now,
                   op, request, token, verify, result, hist>>
    /\ UNCHANGED <<startup, proxy, meta, jwe, calls, tool_vars>>

\* _get_management_api_token asking once more after a request that failed
MgmtTokenReturn_retry(o) ==
    /\ pc = "mgmt_token"
    /\ IF token_granted(o)
       THEN /\ pc' = "mgmt_patch"
            /\ reg' = [reg EXCEPT !.token = o, !.patches = @ + 1]
       ELSE IF reg.token_requests < 2
       THEN /\ pc' = "mgmt_token"
            /\ reg' = [reg EXCEPT !.token = o, !.token_requests = @ + 1]
       ELSE /\ pc' = "done"
            /\ reg' = [reg EXCEPT !.token = o, !.update = "failed",
                                  !.response = register_finish(reg.client_data,
                                                               reg.upstream, FALSE)]
    /\ UNCHANGED <<ctor, config, environ, upstream, provider, exclude_paths, jwks_cache, now,
                   op, request, token, verify, result, hist>>
    /\ UNCHANGED <<startup, proxy, client_secrets, files, meta, jwe, calls, tool_vars>>

\* the management API answers the token request of
\* _get_management_api_token: with a token _update_client_type sends its
\* PATCH, without one it returns False and register_client responds
MgmtTokenReturn(o) ==
    /\ pc = "mgmt_token"
    /\ IF token_granted(o)
       THEN /\ pc' = "mgmt_patch"
            /\ reg' = [reg EXCEPT !.token = o, !.patches = @ + 1]
       ELSE /\ pc' = "done"
            /\ reg' = [reg EXCEPT !.token = o, !.update = "failed",
                                  !.response = register_finish(reg.client_data,
                                                               reg.upstream, FALSE)]
    /\ UNCHANGED <<ctor, config, environ, upstream, provider, exclude_paths, jwks_cache, now,
                   op, request, token, verify, result, hist>>
    /\ UNCHANGED <<startup, proxy, client_secrets, files, meta, jwe, calls, tool_vars>>

\* the management API answers the PATCH, and register_client responds
MgmtPatchReturn(o) ==
    /\ pc = "mgmt_patch"
    /\ pc' = "done"
    /\ reg' = [reg EXCEPT !.patch = o,
                          !.update = IF patch_succeeded(o) THEN "ok" ELSE "failed",
                          !.response = register_finish(reg.client_data, reg.upstream,
                                                       patch_succeeded(o))]
    /\ UNCHANGED <<ctor, config, environ, upstream, provider, exclude_paths, jwks_cache, now,
                   op, request, token, verify, result, hist>>
    /\ UNCHANGED <<startup, proxy, client_secrets, files, meta, jwe, calls, tool_vars>>

\* the provider of the registration specification: the default middleware
\* and every deployment of the DCR proxy
InitRegister ==
    /\ InitWith({<<Args(Passed(Str(Idp \o Slash)), NotPassed, NotPassed), ConfigFile(None),
                   Environ(None)>>})
    /\ exclude_paths = default_exclude_paths
    /\ InitDcr(RegisterDeployments)

NextRegister ==
    \/ \E body \in RegisterBodies : Register(body)
    \/ \E o \in RegisterOutcomes, io \in FileOutcomes : DcrPostReturn(o, io)
    \/ \E o \in TokenOutcomes : MgmtTokenReturn(o)
    \/ \E o \in PatchOutcomes : MgmtPatchReturn(o)
    \/ Finish

SpecRegister == InitRegister /\ [][NextRegister]_vars

\* GET /.well-known/oauth-authorization-server arrives: oauth_metadata runs
\* up to its GET of the issuer's discovery document
OAuthMetadata ==
    /\ pc = "idle"
    /\ op' = "oauth_metadata"
    /\ pc' = "config_fetch"
    /\ meta' = [NoMeta EXCEPT !.fetches = 1]
    /\ UNCHANGED <<ctor, config, environ, upstream, provider, exclude_paths, jwks_cache, now,
                   request, token, verify, result, hist>>
    /\ UNCHANGED <<startup, proxy, client_secrets, files, reg, jwe, calls, tool_vars>>

\* the GET ends, and oauth_metadata builds and returns its document
ConfigFetchReturn(o) ==
    /\ pc = "config_fetch"
    /\ pc' = "done"
    /\ meta' = [meta EXCEPT !.config = o, !.response = oauth_metadata(provider, proxy, o)]
    /\ UNCHANGED <<ctor, config, environ, upstream, provider, exclude_paths, jwks_cache, now,
                   op, request, token, verify, result, hist>>
    /\ UNCHANGED <<startup, proxy, client_secrets, files, reg, jwe, calls, tool_vars>>

\* protected_resource_metadata keeping the stripped URL in self.public_url
ProtectedResourceMetadata_stores_stripped ==
    /\ pc = "idle"
    /\ op' = "protected_resource_metadata"
    /\ pc' = "done"
    /\ meta' = [NoMeta EXCEPT !.response = protected_resource_metadata(provider, proxy)]
    /\ provider' = [provider EXCEPT !.public_url = advertised_issuer(provider)]
    /\ UNCHANGED <<ctor, config, environ, upstream, exclude_paths, jwks_cache, now,
                   request, token, verify, result, hist>>
    /\ UNCHANGED <<startup, proxy, client_secrets, files, reg, jwe, calls, tool_vars>>

\* GET /.well-known/oauth-protected-resource: protected_resource_metadata
\* returns its document without any outbound call
ProtectedResourceMetadata ==
    /\ pc = "idle"
    /\ op' = "protected_resource_metadata"
    /\ pc' = "done"
    /\ meta' = [NoMeta EXCEPT !.response = protected_resource_metadata(provider, proxy)]
    /\ UNCHANGED <<ctor, config, environ, upstream, provider, exclude_paths, jwks_cache, now,
                   request, token, verify, result, hist>>
    /\ UNCHANGED <<startup, proxy, client_secrets, files, reg, jwe, calls, tool_vars>>

\* the provider of the metadata specification
InitMetadata ==
    /\ InitWith(MetadataDeployments)
    /\ exclude_paths = default_exclude_paths
    /\ InitDcr(MetadataDcrDeployments)

NextMetadata ==
    \/ OAuthMetadata
    \/ \E o \in ConfigOutcomes : ConfigFetchReturn(o)
    \/ ProtectedResourceMetadata
    \/ Finish

SpecMetadata == InitMetadata /\ [][NextMetadata]_vars

\* a call of _decrypt_jwe_token(tok)
DecryptJweToken(tok) ==
    /\ pc = "idle"
    /\ op' = "decrypt_jwe_token"
    /\ pc' = "done"
    /\ LET r == decrypt_jwe_token(tok, client_secrets)
       IN /\ jwe' = [called |-> TRUE, token |-> tok, attempts |-> r.attempts]
          /\ result' = IF r.outcome.ok THEN Returned(r.outcome.claims)
                       ELSE Raised(r.outcome.exc)
    /\ UNCHANGED <<ctor, config, environ, upstream, provider, exclude_paths, jwks_cache, now,
                   request, token, verify, hist>>
    /\ UNCHANGED <<startup, proxy, client_secrets, files, reg, meta, calls, tool_vars>>

\* the provider of the decryptor's specification
InitDecrypt ==
    /\ InitWith({<<Args(Passed(Str(Idp)), NotPassed, NotPassed), ConfigFile(None),
                   Environ(None)>>})
    /\ exclude_paths = default_exclude_paths
    /\ InitDcr(DecryptDeployments)

NextDecrypt ==
    \/ \E tok \in JweTokens : DecryptJweToken(tok)
    \/ Finish

SpecDecrypt == InitDecrypt /\ [][NextDecrypt]_vars

\* coroutine c calls get_jwks: it reads the clock and returns the cached key
\* set when the entry is valid, else it awaits the HTTP GET
GetJwks(c) ==
    /\ calls.of[c].pc = "idle"
    /\ calls' = [calls EXCEPT !.of[c] =
                    IF jwks_cache_valid(jwks_cache, now)
                    THEN [NoCall EXCEPT !.pc = "done", !.current_time = now,
                                        !.observed = jwks_cache, !.hit = TRUE,
                                        !.jwks = jwks_cache.jwks]
                    ELSE [NoCall EXCEPT !.pc = "get", !.current_time = now,
                                        !.observed = jwks_cache]]
    /\ UNCHANGED <<ctor, config, environ, upstream, provider, exclude_paths, jwks_cache, now,
                   op, pc, request, token, verify, result, hist>>
    /\ UNCHANGED <<startup, proxy, client_secrets, files, reg, meta, jwe, tool_vars>>

\* the HTTP GET of coroutine c ends: on success _jwks and _last_fetch are
\* assigned with no await between them and the coroutine awaits the exit of
\* the async with block; on failure the exception leaves get_jwks
GetJwksResponse(c, o) ==
    /\ calls.of[c].pc = "get"
    /\ LET g == get_jwks_fetched(jwks_cache, calls.of[c].current_time, o)
       IN /\ jwks_cache' = g.cache
          /\ calls' = IF g.ok
                      THEN [calls EXCEPT !.of[c].pc = "aexit",
                                         !.last_write = <<o.doc, calls.of[c].current_time>>]
                      ELSE [calls EXCEPT !.of[c].pc = "done", !.of[c].exc = g.exc]
    /\ UNCHANGED <<ctor, config, environ, upstream, provider, exclude_paths, now,
                   op, pc, request, token, verify, result, hist>>
    /\ UNCHANGED <<startup, proxy, client_secrets, files, reg, meta, jwe, tool_vars>>

\* the client of coroutine c is closed and get_jwks returns self._jwks
GetJwksExit(c) ==
    /\ calls.of[c].pc = "aexit"
    /\ calls' = [calls EXCEPT !.of[c].pc = "done", !.of[c].jwks = jwks_cache.jwks]
    /\ UNCHANGED <<ctor, config, environ, upstream, provider, exclude_paths, jwks_cache, now,
                   op, pc, request, token, verify, result, hist>>
    /\ UNCHANGED <<startup, proxy, client_secrets, files, reg, meta, jwe, tool_vars>>

\* the caller of coroutine c has taken its result
GetJwksTaken(c) ==
    /\ calls.of[c].pc = "done"
    /\ calls' = [calls EXCEPT !.of[c] = NoCall]
    /\ UNCHANGED <<ctor, config, environ, upstream, provider, exclude_paths, jwks_cache, now,
                   op, pc, request, token, verify, result, hist>>
    /\ UNCHANGED <<startup, proxy, client_secrets, files, reg, meta, jwe, tool_vars>>

\* how the GETs of concurrent coroutines end: either key set, or no answer
ConcurrentOutcomes == {FetchOk(d) : d \in JwksDocs} \cup {FetchFail("network")}

\* the provider of the specification of concurrent get_jwks calls
InitConcurrent ==
    /\ InitWith({<<Args(Passed(Str(Idp)), NotPassed, NotPassed), ConfigFile(None),
                   Environ(None)>>})
    /\ exclude_paths = default_exclude_paths
    /\ InitDcr({<<NoDcrStartup, NoFiles>>})

NextConcurrent ==
    \/ \E c \in Callers : GetJwks(c)
    \/ \E c \in Callers, o \in ConcurrentOutcomes : GetJwksResponse(c, o)
    \/ \E c \in Callers : GetJwksExit(c)
    \/ \E c \in Callers : GetJwksTaken(c)
    \/ Tick

SpecConcurrent == InitConcurrent /\ [][NextConcurrent]_vars

\* the server as a whole: one provider behind the middleware, the metadata
\* routes and the DCR proxy, serving one request at a time
ServerTokens ==
    {Jwt("k1", GoodClaims(User, NoExp), "k1"), Jwt("k1", GoodClaims(User, NoExp), "k9")}
ServerAuthorizations == {NoHeader} \cup {Header(<<W("Bearer"), Sp>> \o t) : t \in ServerTokens}
ServerBodies ==
    {Bytes("utf8", "object", <<Uris>>, "spaced"), Bytes("utf8", "array", <<>>, "compact"),
     Bytes("utf8", "malformed", <<>>, "compact"), Bytes("binary", "malformed", <<>>, "")}
ServerDcrDeployments == {d \in RegisterDeployments : d[2] = NoFiles}

InitServer ==
    /\ InitWith({<<Args(Passed(Str(Idp)), Passed(Str(Gateway \o Slash)), NotPassed),
                   ConfigFile(None), Environ(None)>>})
    /\ exclude_paths = default_exclude_paths
    /\ InitDcr(ServerDcrDeployments)

NextServer ==
    \/ \E tok \in ServerTokens : CallVerifyToken(tok)
    \/ \E path \in {<<"/mcp">>, <<"/healthz">>}, auth \in ServerAuthorizations :
           Dispatch(path, auth)
    \/ \E o \in FetchOutcomes : JwksFetchReturn(o)
    \/ \E o \in DownstreamOutcomes : DownstreamReturn(o)
    \/ OAuthMetadata
    \/ \E o \in ConfigOutcomes : ConfigFetchReturn(o)
    \/ ProtectedResourceMetadata
    \/ \E body \in ServerBodies : Register(body)
    \/ \E o \in RegisterOutcomes, io \in {"ok", "write_error"} : DcrPostReturn(o, io)
    \/ \E o \in TokenOutcomes : MgmtTokenReturn(o)
    \/ \E o \in PatchOutcomes : MgmtPatchReturn(o)
    \/ Finish
    \/ Tick

SpecServer == InitServer /\ [][NextServer]_vars

-----------------------------------------------------------------------------
(* ArtifactStore *)

\* f"artifact://{project_id}/{path}"
ArtifactScheme == <<"artifact:", "/", "/">>
artifact_uri(project_id, path) == ArtifactScheme \o project_id \o <<"/">> \o path

\* s.split("/", 1) of a text holding a "/": the text before the first "/"
\* and the text after it
split_once(s) ==
    LET i == CHOOSE n \in 1..Len(s) : s[n] = "/" /\ \A m \in 1..(n - 1) : s[m] # "/"
    IN <<SubSeq(s, 1, i - 1), SubSeq(s, i + 1, Len(s))>>

\* ArtifactStore.parse_uri: None, or (project_id, path)
parse_uri(uri) ==
    IF ~startswith(uri, ArtifactScheme)
    THEN [some |-> FALSE, project_id |-> <<>>, path |-> <<>>]
    ELSE LET remainder == SubSeq(uri, Len(ArtifactScheme) + 1, Len(uri))
         IN IF ~Contains(remainder, "/")
            THEN [some |-> FALSE, project_id |-> <<>>, path |-> <<>>]
            ELSE [some |-> TRUE, project_id |-> split_once(remainder)[1],
                  path |-> split_once(remainder)[2]]

\* ArtifactStore.store on the dictionary of projects: the project's
\* dictionary is made when missing and the artifact set at its path
store_artifact(st, project_id, path, content) ==
    [p \in DOMAIN st \cup {project_id} |->
        IF p # project_id THEN st[p]
        ELSE LET project == IF project_id \in DOMAIN st THEN st[project_id] ELSE <<>>
             IN [q \in DOMAIN project \cup {path} |->
                    IF q = path THEN content ELSE project[q]]]

\* ArtifactStore.get: the artifact, or None
get_artifact(st, project_id, path) ==
    IF project_id \in DOMAIN st /\ path \in DOMAIN st[project_id]
    THEN [some |-> TRUE, v |-> st[project_id][path]]
    ELSE [some |-> FALSE, v |-> ""]

\* ArtifactStore.get_by_uri
get_by_uri(st, uri) ==
    IF ~parse_uri(uri).some THEN [some |-> FALSE, v |-> ""]
    ELSE get_artifact(st, parse_uri(uri).project_id, parse_uri(uri).path)

\* ArtifactStore.clear_project
clear_project(st, project_id) == [p \in DOMAIN st \ {project_id} |-> st[p]]

\* project ids (the scaffold tool makes them from the server name the user
\* gave), paths in a project, and contents
ProjectIds == {<<"a">>, <<"a", "/", "b">>, <<"p">>}
ArtifactPaths == {<<"c">>, <<"b", "/", "c">>}
Contents == {"x", "y"}

\* artifact_store.store(project_id, path, content)
StoreArtifact(project_id, path, content) ==
    /\ artifacts' = [NoArtifacts EXCEPT
                        !.store = store_artifact(artifacts.store, project_id, path, content),
                        !.op = "store", !.project_id = project_id, !.path = path,
                        !.content = content, !.uri = artifact_uri(project_id, path)]
    /\ UNCHANGED <<ctor, config, environ, upstream, provider, exclude_paths, jwks_cache, now,
                   op, pc, request, token, verify, result, hist>>
    /\ UNCHANGED <<startup, proxy, client_secrets, files, reg, meta, jwe, calls, runner,
                   registrations>>

\* artifact_store.get_by_uri(uri) with the URI store has just returned
GetByUri ==
    /\ artifacts.op = "store"
    /\ artifacts' = [artifacts EXCEPT !.op = "get_by_uri",
                                      !.got = get_by_uri(artifacts.store, artifacts.uri)]
    /\ UNCHANGED <<ctor, config, environ, upstream, provider, exclude_paths, jwks_cache, now,
                   op, pc, request, token, verify, result, hist>>
    /\ UNCHANGED <<startup, proxy, client_secrets, files, reg, meta, jwe, calls, runner,
                   registrations>>

\* artifact_store.clear_project(project_id)
ClearProject(project_id) ==
    /\ artifacts' = [NoArtifacts EXCEPT !.store = clear_project(artifacts.store, project_id),
                                        !.op = "clear_project"]
    /\ UNCHANGED <<ctor, config, environ, upstream, provider, exclude_paths, jwks_cache, now,
                   op, pc, request, token, verify, result, hist>>
    /\ UNCHANGED <<startup, proxy, client_secrets, files, reg, meta, jwe, calls, runner,
                   registrations>>

InitArtifacts ==
    /\ InitWith({<<Args(Passed(Str(Idp)), NotPassed, NotPassed), ConfigFile(None),
                   Environ(None)>>})
    /\ exclude_paths = default_exclude_paths
    /\ InitDcr({<<NoDcrStartup, NoFiles>>})

NextArtifacts ==
    \/ \E project_id \in ProjectIds, path \in ArtifactPaths, content \in Contents :
           StoreArtifact(project_id, path, content)
    \/ GetByUri
    \/ \E project_id \in ProjectIds : ClearProject(project_id)

SpecArtifacts == InitArtifacts /\ [][NextArtifacts]_vars

-----------------------------------------------------------------------------
(* run_plugin_tests: the runner of the test client's plugins *)

\* a TestPlugin: its name, its hard and its soft dependencies
Plugin(name, depends_on, run_after) ==
    [name |-> name, depends_on |-> depends_on, run_after |-> run_after]

\* a TestResult, as far as the runner reads and writes it
TestResult(plugin_name, passed, message) ==
    [plugin_name |-> plugin_name, passed |-> passed, message |-> message]

\* deps_failed looking at run_after as well
deps_failed_soft_too(plugin, failed_tests) ==
    {dep \in plugin.depends_on \cup plugin.run_after : dep \in failed_tests}

\* deps_failed: the hard dependencies of the plugin that are in failed_tests
deps_failed(plugin, failed_tests) == {dep \in plugin.depends_on : dep \in failed_tests}

\* one iteration of the loop of run_plugin_tests for the next plugin, whose
\* test() would end with `outcome`: the plugin is skipped, or its test runs
\* and its result, or the one made for its exception, is recorded
run_plugin(r, outcome) ==
    LET plugin == r.plugins[Len(r.results) + 1]
    IN IF deps_failed(plugin, r.failed_tests) # {}
       THEN [r EXCEPT !.results = Append(@, TestResult(plugin.name, FALSE,
                                                      "Skipped because dependency failed")),
                      !.executed = Append(@, FALSE),
                      !.failed = @ + 1,
                      !.failed_tests = @ \cup {plugin.name}]
       ELSE IF outcome = "pass"
       THEN [r EXCEPT !.results = Append(@, TestResult(plugin.name, TRUE, "ok")),
                      !.executed = Append(@, TRUE),
                      !.passed = @ + 1]
       ELSE [r EXCEPT !.results =
                          Append(@, TestResult(plugin.name, FALSE,
                                               IF outcome = "fail" THEN "failed"
                                               ELSE "Unexpected exception during test")),
                      !.executed = Append(@, TRUE),
                      !.failed = @ + 1,
                      !.failed_tests = @ \cup {plugin.name}]

\* the plugins of a run: three plugins in the order given, each with hard
\* dependencies on none, one or two of them (itself and later ones
\* included) and with or without a soft dependency on the first
PluginOutcomes == {"pass", "fail", "raise"}
DependsOn == {{}, {"A"}, {"B"}, {"C"}, {"A", "B"}}
RunAfter == {{}, {"A"}}
PluginLists ==
    {<<Plugin("A", d[1], r[1]), Plugin("B", d[2], r[2]), Plugin("C", d[3], r[3])>> :
        d \in DependsOn \X DependsOn \X DependsOn, r \in RunAfter \X RunAfter \X RunAfter}

\* run_plugin_tests(session, plugins) is called
RunPluginTests(plugins) ==
    /\ runner.pc = "idle"
    /\ runner' = [NoRunner EXCEPT !.pc = "loop", !.plugins = plugins]
    /\ UNCHANGED <<ctor, config, environ, upstream, provider, exclude_paths, jwks_cache, now,
                   op, pc, request, token, verify, result, hist>>
    /\ UNCHANGED <<startup, proxy, client_secrets, files, reg, meta, jwe, calls, artifacts,
                   registrations>>

\* the loop takes the next plugin
RunPlugin(outcome) ==
    /\ runner.pc = "loop"
    /\ Len(runner.results) < Len(runner.plugins)
    /\ runner' = run_plugin(runner, outcome)
    /\ UNCHANGED <<ctor, config, environ, upstream, provider, exclude_paths, jwks_cache, now,
                   op, pc, request, token, verify, result, hist>>
    /\ UNCHANGED <<startup, proxy, client_secrets, files, reg, meta, jwe, calls, artifacts,
                   registrations>>

\* the loop is over: the summary is printed and the exit code returned
RunPluginTestsReturn ==
    /\ runner.pc = "loop"
    /\ Len(runner.results) = Len(runner.plugins)
    /\ runner' = [runner EXCEPT !.pc = "done",
                                !.exit_code = IF runner.failed = 0 THEN 0 ELSE 1]
    /\ UNCHANGED <<ctor, config, environ, upstream, provider, exclude_paths, jwks_cache, now,
                   op, pc, request, token, verify, result, hist>>
    /\ UNCHANGED <<startup, proxy, client_secrets, files, reg, meta, jwe, calls, artifacts,
                   registrations>>

InitPlugins ==
    /\ InitWith({<<Args(Passed(Str(Idp)), NotPassed, NotPassed), ConfigFile(None),
                   Environ(None)>>})
    /\ exclude_paths = default_exclude_paths
    /\ InitDcr({<<NoDcrStartup, NoFiles>>})

NextPlugins ==
    \/ \E plugins \in PluginLists : RunPluginTests(plugins)
    \/ \E outcome \in PluginOutcomes : RunPlugin(outcome)
    \/ RunPluginTestsReturn

SpecPlugins == InitPlugins /\ [][NextPlugins]_vars

-----------------------------------------------------------------------------
(* What the claims speak of *)

\* the number of dot-separated segments of a token
NumSegments(tok) == Cardinality({i \in 1..Len(tok) : tok[i] = Dot}) + 1

\* the path starts with an entry of the middleware's exclusion list
PathExcluded(path) ==
    \E i \in 1..Len(exclude_paths) :
        /\ Len(exclude_paths[i]) <= Len(path)
        /\ \A j \in 1..Len(exclude_paths[i]) : path[j] = exclude_paths[i][j]

\* the header is "Bearer <tok>": the scheme in any case, then whitespace, then
\* tok, with whitespace nowhere else than around them
CarriesBearer(auth, tok) ==
    /\ auth.some
    /\ tok # <<>>
    /\ \A i \in 1..Len(tok) : tok[i] # Sp
    /\ \E i, j, k \in 1..Len(auth.v) :
          /\ i < j /\ j <= k
          /\ auth.v[i].t \in {"Bearer", "bearer", "BEARER"}
          /\ SubSeq(auth.v, j, k) = tok
          /\ \A n \in 1..Len(auth.v) : (n # i /\ (n < j \/ n > k)) => auth.v[n] = Sp

\* where the whitespace-separated parts of a header value start
PartStarts(h) == {i \in 1..Len(h) : h[i] # Sp /\ (i = 1 \/ h[i - 1] = Sp)}

\* the Authorization header has exactly two whitespace-separated parts, the
\* first being 'bearer' in any case
WellFormedAuthorization(auth) ==
    /\ auth.some
    /\ Cardinality(PartStarts(auth.v)) = 2
    /\ LET first == CHOOSE i \in PartStarts(auth.v) : \A j \in PartStarts(auth.v) : i <= j
       IN /\ auth.v[first].t \in {"Bearer", "bearer", "BEARER"}
          /\ auth.v[first + 1] = Sp

\* the token is a JWS whose signature was made with the key its header
\* names, a key of the key set
SignedByKeyOf(tok, jwks) ==
    /\ Len(tok) = 5
    /\ tok[1].t = "hdr" /\ tok[2] = Dot /\ tok[3].t = "payload" /\ tok[4] = Dot
    /\ tok[5].t = "sig"
    /\ jwks.kind = "dict"
    /\ tok[1].kid \in jwks.keys
    /\ tok[5].kid = tok[1].kid

\* the payload of a JWS
PayloadOf(tok) == tok[3].claims

\* exp is absent or not in the past
TimeValid(c) == ~c.exp.some \/ c.exp.t >= now

\* a string without its trailing slashes
Stripped(s) ==
    IF \A i \in 1..Len(s) : s[i] = "/" THEN <<>>
    ELSE LET last == CHOOSE i \in 1..Len(s) :
                         s[i] # "/" /\ \A j \in (i + 1)..Len(s) : s[j] = "/"
         IN SubSeq(s, 1, last)

\* the issuer rule of the specification: iss, stripped, is the backend
\* issuer or, when publicUrl is configured and differs, the publicUrl
IssuerSatisfies(c) ==
    /\ c.iss.some
    /\ \/ Stripped(c.iss.v) = Stripped(provider.issuer.v)
       \/ /\ Truthy(provider.public_url)
          /\ Stripped(provider.public_url.v) # Stripped(provider.issuer.v)
          /\ Stripped(c.iss.v) = Stripped(provider.public_url.v)

\* the audience rule of the specification
AudienceSatisfies(c) ==
    CASE c.aud.kind = "list" -> provider.audience.v \in {c.aud.l[i] : i \in 1..Len(c.aud.l)}
      [] c.aud.kind = "str" -> c.aud.s = provider.audience.v
      [] OTHER -> FALSE

\* the words of a scope string
ScopeWords(c) ==
    IF c.scope.kind = "list" THEN {c.scope.l[i] : i \in 1..Len(c.scope.l)}
    ELSE {<<c.scope.s[i]>> : i \in {j \in 1..Len(c.scope.s) : c.scope.s[j] # " "}}

\* the scope rule of the specification: nothing is required, or the required
\* scope is among the token's
ScopeSatisfies(c) ==
    Truthy(provider.required_scope) => provider.required_scope.v \in ScopeWords(c)

\* verify_token ended by raising the error of the named step
RaisedAt(step) ==
    /\ verify.finished
    /\ ~verify.outcome.ok
    /\ verify.outcome.exc.type = "ValueError"
    /\ verify.outcome.exc.msg # <<>>
    /\ verify.outcome.exc.msg[1] = step

IssuerError == "Invalid issuer. Expected one of "
AudienceError == "Invalid audience. Expected "
ScopeError == "Required scope "

\* the error code of a WWW-Authenticate value
WwwCode(www) == IF Len(www) >= 3 THEN www[3] ELSE ""


-----------------------------------------------------------------------------
(* The claims *)

\* C1: for a request whose path starts with no entry of the exclusion list,
\* dispatch calls the downstream handler only after verify_token has returned
\* successfully for the bearer token of that request, and request.state then
\* holds the verified claims, which are the token's payload, and user_id
\* equal to their 'sub'.
C1_DownstreamOnlyAfterVerify ==
    (op = "dispatch" /\ hist.downstream > 0 /\ ~PathExcluded(request.path))
        => /\ verify.called /\ verify.finished /\ verify.outcome.ok
           /\ CarriesBearer(request.authorization, token)
           /\ SignedByKeyOf(token, verify.jwks)
           /\ verify.outcome.claims = PayloadOf(token)
           /\ request.state.set
           /\ request.state.auth_claims = verify.outcome.claims
           /\ request.state.user_id = PayloadOf(token).sub

\* the downstream handler is being called for an authenticated request that
\* names a subject
C1_Witness ==
    /\ op = "dispatch" /\ pc = "call_next" /\ ~PathExcluded(request.path)
    /\ hist.fetches = 1
    /\ request.state.user_id = User

\* C2: for a token of exactly 5 dot-separated segments verify_token raises
\* the JoseError carrying JWE_TOKEN_DETECTED and, during the call, issues no
\* JWKS fetch, leaves the cache entry as it was and never calls the JWE
\* fallback decryptor (the only reader of the client secret store).
C2_JweRejectedWithoutFetch ==
    (op = "verify_token" /\ NumSegments(token) = 5)
        => /\ pc = "done"
           /\ result.kind = "raise"
           /\ result.exc.type = "JoseError"
           /\ Contains(result.exc.msg, "JWE_TOKEN_DETECTED")
           /\ hist.fetches = 0
           /\ hist.decrypts = 0
           /\ jwks_cache = hist.cache0

\* a 5-segment token was rejected while the cache held a key set
C2_Witness ==
    /\ op = "verify_token" /\ pc = "done" /\ NumSegments(token) = 5
    /\ Len(token) > 4
    /\ jwks_cache.jwks.kind = "dict"
    /\ result.kind = "raise"

\* C3: for a token whose segment count is neither 3 nor 5 verify_token raises
\* the format error that names the count, before any network access: no JWKS
\* fetch is issued and the cache entry is unchanged.
C3_BadFormatRejectedWithoutFetch ==
    (op = "verify_token" /\ NumSegments(token) \notin {3, 5})
        => /\ pc = "done"
           /\ result.kind = "raise"
           /\ result.exc.type = "JoseError"
           /\ Len(result.exc.msg) = 3
           /\ result.exc.msg[1] = "Invalid token format: expected 3 parts (JWT), got "
           /\ result.exc.msg[2] =
                  <<"1", "2", "3", "4", "5", "6", "7", "8", "9">>[NumSegments(token)]
           /\ hist.fetches = 0
           /\ jwks_cache = hist.cache0

\* a token of four segments was rejected while the cache was empty
C3_Witness ==
    /\ op = "verify_token" /\ pc = "done" /\ NumSegments(token) = 4
    /\ jwks_cache.jwks.kind = "none"
    /\ result.kind = "raise"

\* C4: for a 3-segment token signed by a key of the JWKS, not expired, whose
\* iss, aud and scope satisfy the configuration, verify_token returns a claim
\* map equal to the token's payload; and whatever it returns is the payload.
C4_ReturnsPayload ==
    (op = "verify_token" /\ pc = "done")
        => /\ (/\ SignedByKeyOf(token, verify.jwks)
               /\ TimeValid(PayloadOf(token))
               /\ IssuerSatisfies(PayloadOf(token))
               /\ AudienceSatisfies(PayloadOf(token))
               /\ ScopeSatisfies(PayloadOf(token)))
                  => (result.kind = "return" /\ result.claims = PayloadOf(token))
           /\ result.kind = "return"
                  => (SignedByKeyOf(token, verify.jwks) /\ result.claims = PayloadOf(token))

\* a token whose issuer carries a trailing slash and whose audience is a
\* list was verified against a fetched key set
C4_Witness ==
    /\ op = "verify_token" /\ pc = "done" /\ result.kind = "return"
    /\ hist.fetches = 1
    /\ result.claims.iss = Str(Idp \o Slash)
    /\ result.claims.aud.kind = "list"
    /\ Truthy(provider.required_scope)

\* C5: a signature-valid token passes the issuer step if and only if its
\* 'iss', trailing slashes stripped, equals the stripped backend issuer or,
\* when publicUrl is configured and differs, the stripped publicUrl; a token
\* with another or a missing 'iss' is rejected.
\* The issuer and the public URL range over URLs, which keep text once their
\* trailing slashes are stripped.
C5_IssuerIff ==
    (/\ op = "verify_token" /\ pc = "done"
     /\ SignedByKeyOf(token, verify.jwks)
     /\ TimeValid(PayloadOf(token)))
        => (~RaisedAt(IssuerError) <=> IssuerSatisfies(PayloadOf(token)))

\* a token issued under the public URL was accepted, the backend issuer being
\* another URL
C5_Witness ==
    /\ op = "verify_token" /\ pc = "done" /\ result.kind = "return"
    /\ PayloadOf(token).iss = Str(Gateway)
    /\ Stripped(provider.issuer.v) = Idp

\* C6: the audience step passes a list 'aud' iff the configured audience is
\* a member, a scalar 'aud' iff it equals the configured audience, and
\* rejects a token without 'aud' with the audience error.
C6_AudienceRule ==
    (/\ op = "verify_token" /\ pc = "done"
     /\ SignedByKeyOf(token, verify.jwks)
     /\ TimeValid(PayloadOf(token))
     /\ ~RaisedAt(IssuerError))
        => /\ RaisedAt(AudienceError) <=> ~AudienceSatisfies(PayloadOf(token))
           /\ result.kind = "return" => AudienceSatisfies(PayloadOf(token))
           /\ PayloadOf(token).aud.kind = "absent"
                  => (result.kind = "raise" /\ RaisedAt(AudienceError))

\* a token whose audience list holds the configured audience among others
\* was verified
C6_Witness ==
    /\ op = "verify_token" /\ pc = "done" /\ result.kind = "return"
    /\ PayloadOf(token).aud = List(<<AudienceA, <<"B">>>>)

\* C7: when requiredScope is unset (no constructor argument, no config-file
\* value, no environment variable) verify_token checks no scope: an otherwise
\* valid token whose scope is "mcp:read" verifies.
C7_M2MWhenUnset ==
    (/\ op = "verify_token" /\ pc = "done"
     /\ ~ctor.required_scope.passed
     /\ ~Truthy(config.scope)
     /\ ~Truthy(environ.OIDC_SCOPE)
     /\ SignedByKeyOf(token, verify.jwks)
     /\ TimeValid(PayloadOf(token))
     /\ ~RaisedAt(IssuerError)
     /\ AudienceSatisfies(PayloadOf(token))
     /\ PayloadOf(token).scope = Scalar(<<"mcp:read">>))
        => result.kind = "return"

\* C8: for a non-excluded request a missing Authorization header and a
\* malformed one both give a 401 whose WWW-Authenticate error code is
\* invalid_request, and verify_token is not called.
C8_BadHeaderInvalidRequest ==
    (/\ op = "dispatch" /\ pc = "done"
     /\ ~PathExcluded(request.path)
     /\ ~WellFormedAuthorization(request.authorization))
        => /\ result.kind = "response"
           /\ result.status = 401
           /\ WwwCode(result.www) = "invalid_request"
           /\ ~verify.called

\* C9: every 401 response dispatch produces carries a WWW-Authenticate header
\* of the form Bearer realm=..., error=<code>, error_description=... whose
\* code is invalid_request, invalid_token or invalid_client.
C9_Every401HasChallenge ==
    (result.kind = "response" /\ result.status = 401 /\ result.by = "middleware")
        => /\ Len(result.www) >= 6
           /\ result.www[1] = "Bearer realm=\"MCP API\""
           /\ result.www[2] = ", error=\""
           /\ result.www[3] \in {"invalid_request", "invalid_token", "invalid_client"}
           /\ result.www[4] = "\""
           /\ result.www[5] = ", error_description=\""
           /\ result.www[Len(result.www)] = "\""
           /\ SubSeq(result.www, 6, Len(result.www) - 1) = result.description

\* a 401 for a missing header, one for a rejected token
C9_Witness ==
    /\ result.kind = "response" /\ result.status = 401 /\ result.by = "middleware"
    /\ WwwCode(result.www) = "invalid_request"
    /\ ~request.authorization.some

\* C10: the middleware answers invalid_client if and only if the bearer
\* token presented was classified as encrypted (5 segments); every other
\* authentication failure gives invalid_token or invalid_request.
C10_InvalidClientIffJwe ==
    (op = "dispatch" /\ pc = "done" /\ result.kind = "response" /\ result.by = "middleware")
        => /\ (WwwCode(result.www) = "invalid_client" \/ result.error = "invalid_client")
                  <=> (verify.called /\ NumSegments(token) = 5)
           /\ (result.status = 401 /\ ~(verify.called /\ NumSegments(token) = 5))
                  => WwwCode(result.www) \in {"invalid_token", "invalid_request"}

\* an encrypted token was answered with invalid_client
C10_Witness ==
    /\ op = "dispatch" /\ pc = "done"
    /\ result.status = 401
    /\ WwwCode(result.www) = "invalid_client"
    /\ token = JweToken

\* a health-check path
HealthPath(path) == path \in {<<"/healthz">>, <<"/readyz">>}

\* a health-check path, a discovery document or the registration endpoint
ListedPath(path) ==
    \/ path \in {<<"/healthz">>, <<"/readyz">>, <<"/register">>}
    \/ path # <<>> /\ path[1] = "/.well-known/"

\* dispatch handed the request to the downstream handler without
\* authenticating it: no authenticate_request/verify_token, no JWKS fetch, and
\* no response of its own
Bypassed ==
    /\ pc \in {"call_next", "done"}
    /\ ~verify.called
    /\ hist.fetches = 0
    /\ hist.downstream = 1
    /\ jwks_cache = hist.cache0
    /\ ~request.state.set
    /\ result.kind = "response" => result.by = "downstream"

GetJwksCalled == verify.called /\ NumSegments(token) = 3

\* the entry the call found holds a key set fetched less than the TTL ago
FoundFresh ==
    /\ hist.cache0.jwks.kind = "dict"
    /\ verify.current_time - hist.cache0.last_fetch < 3600

\* C13: sequential get_jwks calls: once a fetch has succeeded, a call made
\* while now - fetchedAt < ttl returns the cached key set without a fetch and
\* leaves the entry alone; the first call after the TTL has elapsed (and any
\* call that finds no key set) issues exactly one fetch.
C13_CacheIdempotentWithinTtl ==
    GetJwksCalled
        => /\ FoundFresh => /\ hist.fetches = 0
                            /\ hist.fetch = "none"
                            /\ verify.finished
                            /\ verify.jwks = hist.cache0.jwks
                            /\ jwks_cache = hist.cache0
           /\ ~FoundFresh => hist.fetches = 1
           /\ (hist.fetch = "ok" /\ pc = "done")
                  => (jwks_cache.last_fetch = verify.current_time /\ jwks_cache.jwks = verify.jwks)

\* a key set fetched a full TTL ago was fetched again, once
C13_Witness ==
    /\ GetJwksCalled /\ pc = "done"
    /\ hist.cache0.jwks.kind = "dict"
    /\ verify.current_time - hist.cache0.last_fetch = 3600
    /\ hist.fetches = 1 /\ hist.fetch = "ok"

\* C14: when the entry is stale or absent and the fetch fails (transport
\* error, timeout, non-2xx status) get_jwks raises the failure to its caller,
\* does not hand out the key set it held, and leaves key set and timestamp as
\* they were.
C14_FetchFailureSurfaces ==
    (GetJwksCalled /\ hist.fetch \in {"network", "http_status"})
        => /\ ~FoundFresh
           /\ verify.finished
           /\ ~verify.outcome.ok
           /\ verify.outcome.exc.type = "Exception"
           /\ verify.jwks = NoJwks
           /\ jwks_cache = hist.cache0
           /\ hist.downstream = 0

\* the fetch failed while the cache held a stale key set, and dispatch
\* answered 500
C14_Witness ==
    /\ op = "dispatch" /\ pc = "done"
    /\ GetJwksCalled /\ hist.fetch = "network"
    /\ hist.cache0.jwks.kind = "dict"
    /\ result.kind = "response" /\ result.status = 500

\* the keys of a dict
Keys(d) == {d[i][1] : i \in 1..Len(d)}

\* the fields register_client forces, with the values it forces them to
ForcedFields ==
    {<<"token_endpoint_auth_method", JStr("none")>>, <<"application_type", JStr("native")>>,
     <<"app_type", JStr("spa")>>}

\* a POST /register is being handled or has been answered
Registering == op = "register"

\* C15: a POST /register whose body is a JSON object is forwarded, and
\* whenever a request whose body parses as JSON is forwarded, the forwarded
\* body is a JSON object with token_endpoint_auth_method "none",
\* application_type "native" and app_type "spa", and with every other field
\* of the inbound body, and no further field, at the inbound value.
C15_ForcedPublicClient ==
    LET inb == json_loads(reg.inbound)
        fwd == json_loads(reg.forwarded)
        forced == {f[1] : f \in ForcedFields}
    IN (Registering /\ inb.ok) =>
          /\ inb.kind = "dict" => reg.sent
          /\ reg.sent =>
                /\ fwd.ok /\ fwd.kind = "dict"
                /\ \A f \in ForcedFields : dict_get(fwd.dict, f[1]) = Str(f[2])
                /\ Keys(fwd.dict) = Keys(inb.dict) \cup forced
                /\ \A k \in Keys(inb.dict) \ forced :
                      dict_get(fwd.dict, k) = dict_get(inb.dict, k)

\* a body that asked for a confidential web client went out as a public one
C15_Witness ==
    /\ Registering /\ reg.sent
    /\ dict_get(json_loads(reg.inbound).dict, "token_endpoint_auth_method")
           = Str(JStr("client_secret_post"))
    /\ dict_get(json_loads(reg.inbound).dict, "app_type") = Str(JStr("regular_web"))
    /\ dict_get(json_loads(reg.forwarded).dict, "token_endpoint_auth_method")
           = Str(JStr("none"))
    /\ dict_get(json_loads(reg.forwarded).dict, "redirect_uris")
           = Str(JStr("[\"https://x\"]"))

\* C16: a POST /register whose body is not well-formed JSON is forwarded to
\* the upstream with the very bytes that came in.
C16_MalformedForwardedVerbatim ==
    (Registering /\ ~json_loads(reg.inbound).ok) =>
        (reg.sent /\ reg.forwarded = reg.inbound)

\* the handler has returned its response to a POST /register
RegisterReturned == Registering /\ pc = "done"

\* the client_secret of the upstream's response, when its body is a JSON
\* object holding a truthy one
UpstreamSecret ==
    LET d == json_loads(reg.upstream.body)
    IN IF reg.upstream.kind = "response" /\ d.ok /\ d.kind = "dict"
          /\ dict_get(d.dict, "client_secret").some
          /\ JTruthy(dict_get(d.dict, "client_secret").v)
       THEN Str(dict_get(d.dict, "client_secret").v.s)
       ELSE None

\* C17: when the handler returns after an upstream response with a status in
\* 200..299 that holds a client_secret, the secret is in the in-memory list
\* and _persist_dcr_secret has been called with it.
C17_Every2xxSecretCaptured ==
    (RegisterReturned /\ reg.upstream.status \in 200..299 /\ UpstreamSecret.some) =>
        (InList(client_secrets, UpstreamSecret.v) /\ reg.persist_calls = 1)

\* the secrets file _persist_dcr_secret reads and writes
PersistTarget == IF Truthy(proxy.client_secrets_file) THEN "configured" ELSE "captured"

\* _persist_dcr_secret raised inside its try block: while reading the file
\* it found, or while writing the file with the new secret
PersistRaised ==
    \/ reg.persist_io = "read_error" /\ reg.files0[PersistTarget].exists
    \/ /\ reg.persist_io \in {"write_error", "dump_error"}
       /\ ~InList(reg.files0[PersistTarget].secrets, UpstreamSecret.v)

\* the update of the client type succeeded: token granted, PATCH answered 200
PatchSucceeded == RegisterReturned /\ reg.patches = 1 /\ patch_succeeded(reg.patch)

NotUpdated ==
    \/ ~Truthy(proxy.mgmt_client_id)
    \/ ~Truthy(proxy.mgmt_client_secret)
    \/ reg.token_requests = 1 /\ ~token_granted(reg.token)
    \/ reg.patches = 1 /\ ~patch_succeeded(reg.patch)

\* the handler has answered a registration the upstream accepted with one of
\* these statuses and a JSON object, without updating the client type
Degraded(statuses) ==
    /\ RegisterReturned
    /\ reg.upstream.kind = "response" /\ reg.upstream.status \in statuses
    /\ json_loads(reg.upstream.body).ok /\ json_loads(reg.upstream.body).kind = "dict"
    /\ NotUpdated

\* the response carries the upstream's status and the upstream's JSON fields,
\* client_secret included, unchanged
KeepsUpstreamResponse ==
    /\ reg.response.status = reg.upstream.status
    /\ reg.response.content = json_loads(reg.upstream.body).dict
    /\ UpstreamSecret.some =>
          dict_get(reg.response.content, "client_secret") = Str(JStr(UpstreamSecret.v))

\* C19: when the upstream accepted the registration (a 2xx status) and the
\* client type was not updated (no management credentials, token request
\* failed, PATCH failed), the handler answers with the upstream's status and
\* with the upstream's JSON fields, client_secret included, unchanged.
C19_DegradedKeepsUpstreamResponse == Degraded(200..299) => KeepsUpstreamResponse

\* the degraded path for the two statuses register_client takes as success:
\* there the response is the upstream's
DegradedCreatedKeepsUpstreamResponse == Degraded({200, 201}) => KeepsUpstreamResponse

\* the handler has answered an upstream response whose status is no 2xx
UpstreamRefused ==
    /\ RegisterReturned
    /\ reg.upstream.kind = "response" /\ reg.upstream.status \notin 200..299

\* neither the in-memory list nor a secrets file changed during the request,
\* and _persist_dcr_secret was not called
StoresUntouched ==
    client_secrets = reg.secrets0 /\ files = reg.files0 /\ reg.persist_calls = 0

ExceptionTexts == {<<>>, <<"All connection attempts failed">>, <<"boom">>}

\* the 500 of dispatch is the fixed body, whatever was raised
DispatchServerErrorGeneric ==
    (op = "dispatch" /\ result.kind = "response" /\ result.status = 500) =>
        result = Response(500, "server_error", <<"Internal authentication error">>, <<>>,
                          "middleware")

\* the 500 register_client answers an exception with is the one it would
\* answer with had the exception carried any other text
RegisterServerErrorGeneric ==
    (RegisterReturned /\ reg.exc # NoExc) =>
        /\ reg.response.status = 500
        /\ \A msg \in ExceptionTexts : reg.response = server_error(Exc(reg.exc.type, msg))

\* C11: every 500 produced by dispatch and by the POST /register handler for
\* an internal exception has a body that does not depend on the exception:
\* with any other exception text the body would be the same.
C11_ServerErrorsGeneric == DispatchServerErrorGeneric /\ RegisterServerErrorGeneric

\* a list without a repeated entry
NoDuplicates(l) == \A i, j \in 1..Len(l) : l[i] = l[j] => i = j

\* C21: the in-memory client_secrets list never holds a secret twice,
\* neither after the merging at startup nor after any registrations.
C21_NoDuplicateSecrets == NoDuplicates(client_secrets)

\* a registration adds no repetition to the list it found
RegistrationAddsNoDuplicate ==
    (Registering /\ NoDuplicates(reg.secrets0)) => NoDuplicates(client_secrets)

\* _persist_dcr_secret was called with the upstream's secret during this
\* request; the file it targets before and after
Persisting == Registering /\ reg.persist_calls = 1
FileBefore == reg.files0[PersistTarget]
FileAfter == files[PersistTarget]

\* the read of the file raised; the secret was already in the file (the
\* write is skipped); the write raised before or after the file was opened
ReadFailed == reg.persist_io = "read_error" /\ FileBefore.exists
WriteSkipped == ~ReadFailed /\ InList(FileBefore.secrets, UpstreamSecret.v)
WriteFailed ==
    ~ReadFailed /\ ~WriteSkipped /\ reg.persist_io \in {"write_error", "dump_error"}
WriteDone == ~ReadFailed /\ ~WriteSkipped /\ ~WriteFailed

\* C22 as stated: a write of _persist_dcr_secret leaves a file holding every
\* secret it held before and the new one, without duplicates; a failed or
\* skipped write leaves the file unchanged.
C22_FileMergedOrUnchanged ==
    Persisting =>
        /\ WriteDone =>
              /\ \A i \in 1..Len(FileBefore.secrets) :
                    InList(FileAfter.secrets, FileBefore.secrets[i])
              /\ InList(FileAfter.secrets, UpstreamSecret.v)
              /\ NoDuplicates(FileAfter.secrets)
        /\ (WriteFailed \/ WriteSkipped \/ ReadFailed) => files = reg.files0

\* C22: a write of _persist_dcr_secret that succeeds leaves in the file the
\* list it held before followed by the new secret; a skipped write, a failed
\* read and a write failing before the file is opened leave the file as it
\* was; a write failing after the file was opened leaves it empty; the other
\* secrets file is never touched.
C22_FileAppendedOrUnchangedOrTruncated ==
    Persisting =>
        /\ WriteDone => FileAfter = File(Append(FileBefore.secrets, UpstreamSecret.v))
        /\ (WriteSkipped \/ ReadFailed \/ (WriteFailed /\ reg.persist_io = "write_error"))
              => FileAfter = FileBefore
        /\ (WriteFailed /\ reg.persist_io = "dump_error") => FileAfter = File(<<>>)
        /\ \A f \in DOMAIN files : f # PersistTarget => files[f] = reg.files0[f]

\* a second secret was appended to a file that held one
C22_Witness ==
    /\ Persisting /\ WriteDone
    /\ FileBefore.exists /\ FileBefore.secrets # <<>>
    /\ FileAfter.secrets = Append(FileBefore.secrets, UpstreamSecret.v)

\* the authorization-server document has been returned
AuthorizationServerReturned == op = "oauth_metadata" /\ pc = "done"

\* the discovery document was reachable: the GET returned it (a 200 with a
\* JSON body)
ConfigReachable ==
    meta.config.kind = "response" /\ meta.config.status = 200 /\ meta.config.json_ok

\* the endpoints of the document come from the discovery document when it
\* was reachable and from the issuer's pattern otherwise
EndpointsFromDiscoveryOrPattern ==
    /\ meta.response.token_endpoint =
           IF ConfigReachable THEN meta.config.token_endpoint
           ELSE Str(endpoint_pattern(provider.issuer.v, "/oauth/token",
                                     "/protocol/openid-connect/token"))
    /\ meta.response.authorization_endpoint =
           IF ConfigReachable THEN meta.config.authorization_endpoint
           ELSE Str(endpoint_pattern(provider.issuer.v, "/authorize",
                                     "/protocol/openid-connect/auth"))

MetadataReturned == op \in {"oauth_metadata", "protected_resource_metadata"} /\ pc = "done"

\* the startup's GET returned the discovery document and the document names
\* a registration_endpoint
RegistrationDiscovered ==
    /\ startup.discovery.kind = "response" /\ startup.discovery.status = 200
    /\ Truthy(startup.discovery.registration_endpoint)

\* the startup fell back to the configured DCR proxy URL: the GET raised, or
\* its 200 named no registration_endpoint
ProxyUrlFallback ==
    /\ Truthy(proxy.dcr_proxy_url)
    /\ \/ startup.discovery.kind = "exception"
       \/ /\ startup.discovery.kind = "response" /\ startup.discovery.status = 200
          /\ ~Truthy(startup.discovery.registration_endpoint)

\* POST /register is among the routes
RegisterMounted == InList(get_metadata_routes(proxy), <<"/register">>)

Priority(arg, from_file, from_env, default) ==
    IF arg.passed /\ arg.val.some THEN arg.val
    ELSE IF from_file.some THEN from_file
    ELSE IF from_env.some THEN from_env
    ELSE default

\* C25: every configurable field of the provider holds the explicit
\* argument if one was supplied, else the config file's value, else the
\* environment variable's, else the default (for required_scope the
\* documented default "openid", for jwks_uri the discovered URI).
C25_ConfigurationPriority ==
    /\ provider.issuer = Priority(ctor.issuer, config.issuer, environ.OIDC_ISSUER, None)
    /\ provider.audience =
           Priority(ctor.audience, config.audience, environ.OIDC_AUDIENCE, None)
    /\ provider.jwks_uri =
           Priority(ctor.jwks_uri, config.jwks_uri, environ.OIDC_JWKS_URI,
                    discover_jwks_uri(upstream))
    /\ provider.public_url =
           Priority(ctor.public_url, config.public_url, environ.PUBLIC_URL, None)
    /\ provider.required_scope =
           Priority(ctor.required_scope, config.scope, environ.OIDC_SCOPE,
                    required_scope_default)
    /\ proxy.dcr_proxy_url =
           Priority(Passed(startup.dcr_proxy_url), startup.config.dcr_proxy_url,
                    startup.environ.DCR_PROXY_URL, None)

\* the fields other than required_scope follow the priority
PriorityOfOtherFields ==
    /\ provider.issuer = Priority(ctor.issuer, config.issuer, environ.OIDC_ISSUER, None)
    /\ provider.audience =
           Priority(ctor.audience, config.audience, environ.OIDC_AUDIENCE, None)
    /\ provider.jwks_uri =
           Priority(ctor.jwks_uri, config.jwks_uri, environ.OIDC_JWKS_URI,
                    discover_jwks_uri(upstream))
    /\ provider.public_url =
           Priority(ctor.public_url, config.public_url, environ.PUBLIC_URL, None)
    /\ proxy.dcr_proxy_url =
           Priority(Passed(startup.dcr_proxy_url), startup.config.dcr_proxy_url,
                    startup.environ.DCR_PROXY_URL, None)

\* a verify_token call on a token of three segments has ended
JwtPathEnded ==
    /\ op = "verify_token" /\ verify.finished
    /\ Len(token) = 5
    /\ token[1].t = "hdr" /\ token[2] = Dot /\ token[3].t = "payload" /\ token[4] = Dot
    /\ token[5].t = "sig"

\* the first step of the stated order the token does not pass: the JWKS
\* fetch, the signature and time claims, the issuer, the audience, the scope
FirstFailingStep ==
    IF verify.jwks.kind # "dict" THEN "fetch"
    ELSE IF ~SignedByKeyOf(token, verify.jwks) \/ ~TimeValid(PayloadOf(token))
    THEN "signature"
    ELSE IF ~IssuerSatisfies(PayloadOf(token)) THEN "issuer"
    ELSE IF ~AudienceSatisfies(PayloadOf(token)) THEN "audience"
    ELSE IF ~ScopeSatisfies(PayloadOf(token)) THEN "scope"
    ELSE "none"

\* the step whose error verify_token ended with
ReportedStep ==
    IF verify.outcome.ok THEN "none"
    ELSE IF RaisedAt(IssuerError) THEN "issuer"
    ELSE IF RaisedAt(AudienceError) THEN "audience"
    ELSE IF RaisedAt(ScopeError) THEN "scope"
    ELSE IF /\ verify.outcome.exc.msg # <<>>
            /\ verify.outcome.exc.msg[1] \in
                   {"decode_error", "bad_signature", "expired_token",
                    "Invalid JSON Web Key Set"}
    THEN "signature"
    ELSE "fetch"

\* C26: the JWT path of verify_token ends with the error of the first step,
\* in the order JWKS fetch, signature and time claims, issuer, audience,
\* scope, that the token does not pass, and succeeds when it passes all.
C26_FirstFailingStepReported == JwtPathEnded => ReportedStep = FirstFailingStep

\* a validly signed token failing issuer and audience is reported as an
\* issuer failure
C26_Witness ==
    /\ JwtPathEnded
    /\ SignedByKeyOf(token, verify.jwks) /\ TimeValid(PayloadOf(token))
    /\ ~IssuerSatisfies(PayloadOf(token)) /\ ~AudienceSatisfies(PayloadOf(token))
    /\ ReportedStep = "issuer"

\* a token with a bad signature, a wrong issuer and a wrong audience ended
\* at the signature
BadSignatureStopsFirst ==
    /\ JwtPathEnded
    /\ verify.jwks.kind = "dict" /\ ~SignedByKeyOf(token, verify.jwks)
    /\ ~IssuerSatisfies(PayloadOf(token))
    /\ ReportedStep = "signature"

\* the pairs (secret, derivation) of the store in the claim's order
JwePairs == key_variations(client_secrets, 1)

\* the pairs whose key decrypts the token
Decrypting == {n \in 1..Len(JwePairs) : deserialize_compact(jwe.token, JwePairs[n][3])}

FirstDecrypting == CHOOSE n \in Decrypting : \A m \in Decrypting : n <= m

\* C27: the decryptor tries the secrets in list order and, per secret, the
\* derivations in their order; the result is the payload of the first pair
\* whose decryption succeeds and no later pair is attempted; when every pair
\* fails, or the store is empty, the aggregated error is raised
C27_FirstSuccessfulDecryptionWins ==
    (pc = "done" /\ jwe.called) =>
        IF Decrypting = {}
        THEN /\ result.kind = "raise"
             /\ result.exc.type = "JoseError"
             /\ jwe.attempts = JwePairs
        ELSE /\ result.kind = "return"
             /\ result.claims = jwe.token.claims
             /\ jwe.attempts = SubSeq(JwePairs, 1, FirstDecrypting)

\* a token whose content is a JSON object is decrypted as C27 says
JsonPayloadFirstWins ==
    (pc = "done" /\ jwe.called /\ jwe.token.content = "json")=>
        IF Decrypting = {}
        THEN result.kind = "raise" /\ jwe.attempts = JwePairs
        ELSE /\ result.kind = "return"
             /\ result.claims = jwe.token.claims
             /\ jwe.attempts = SubSeq(JwePairs, 1, FirstDecrypting)

\* the second secret's key decrypted a JSON payload after every key of the first failed
SecondSecretDecrypts ==
    ~(pc = "done" /\ jwe.called /\ result.kind = "return" /\ Len(client_secrets) = 2
      /\ jwe.attempts[Len(jwe.attempts)][1] = 2)

\* the outbound calls the operation in progress has issued so far
OutboundCalls ==
    [jwks_fetch |-> hist.fetches, dcr_post |-> reg.posts,
     mgmt_token |-> reg.token_requests, mgmt_patch |-> reg.patches]

\* the operation in progress waits for an outbound call of this kind
InFlight(call) == pc = call

\* C28: no operation re-issues an outbound call: a verify_token call issues
\* at most one JWKS fetch, a POST /register at most one upstream POST, one
\* management token request and one PATCH, whether the call failed or not;
\* a call in flight is the only one of its kind the operation has issued
C28_NoAutomaticRetry ==
    \A call \in DOMAIN OutboundCalls :
        /\ OutboundCalls[call] <= 1
        /\ InFlight(call) => OutboundCalls[call] = 1

\* a registration ended after its POST went through and its token request
\* timed out; a verify_token call ended after its one fetch failed
C28_Witness ==
    /\ pc = "done"
    /\ \/ /\ op = "register"
          /\ reg.token.kind = "exception"
          /\ reg.posts = 1 /\ reg.token_requests = 1 /\ reg.patches = 0
       \/ /\ op = "verify_token"
          /\ hist.fetch \in {"http_status", "network", "bad_json"}
          /\ hist.fetches = 1

\* l is m with entries added at its end
GrownFrom(l, m) == Len(m) <= Len(l) /\ SubSeq(l, 1, Len(m)) = m

\* C29: no step of any operation changes issuer, audience, jwks_uri,
\* public_url, required_scope, the upstream DCR endpoint or the management
\* credentials; the secrets list changes only by growing during a
\* registration, the JWKS cache entry only when a fetch of get_jwks returns
C29_ConfigImmutableAfterStartup ==
    [][/\ provider' = provider
       /\ proxy' = proxy
       /\ client_secrets' # client_secrets =>
              op = "register" /\ GrownFrom(client_secrets', client_secrets)
       /\ jwks_cache' # jwks_cache => pc = "jwks_fetch"]_vars

\* after a fetch filled the cache, a registration has added a secret, and
\* the configuration is the one the constructor built
C29_Witness ==
    /\ pc = "done" /\ op = "register"
    /\ client_secrets # startup.client_secrets
    /\ jwks_cache.jwks.kind = "dict"
    /\ provider = OIDCAuthProvider_init(ctor, config, environ, upstream)
    /\ proxy.upstream_dcr_endpoint = RegistrationEndpoint

\* the cache entry is the pair the fetch that completed last wrote, or the
\* empty entry of the constructor when no fetch has completed
EntryOfLastWriter ==
    IF calls.last_write = <<>>
    THEN jwks_cache = [jwks |-> NoJwks, last_fetch |-> 0]
    ELSE jwks_cache = [jwks |-> calls.last_write[1], last_fetch |-> calls.last_write[2]]

\* a coroutine that found the entry valid returned the key set of that entry
HitReturnsStoredKeys ==
    \A c \in Callers :
        (calls.of[c].pc = "done" /\ calls.of[c].hit) =>
            /\ calls.of[c].jwks = calls.of[c].observed.jwks
            /\ calls.of[c].observed.jwks.kind = "dict"
            /\ calls.of[c].current_time - calls.of[c].observed.last_fetch < cache_ttl

\* C30: under every interleaving of get_jwks coroutines the stored key set
\* and the stored time are those of one fetch, the fetch that completed
\* last, and a coroutine that finds the entry valid returns its key set
C30_CacheEntryNeverPartial == EntryOfLastWriter /\ HitReturnsStoredKeys

\* two coroutines missed at different times and each fetched another key
\* set; the one that started later completed first, so the entry that
\* remains carries the earlier time; a third coroutine was served from it
C30_Witness ==
    /\ calls.of["c1"].pc = "done" /\ ~calls.of["c1"].hit /\ calls.of["c1"].exc = NoExc
    /\ calls.of["c2"].pc = "done" /\ ~calls.of["c2"].hit /\ calls.of["c2"].exc = NoExc
    /\ calls.of["c1"].current_time < calls.of["c2"].current_time
    /\ jwks_cache.last_fetch = calls.of["c1"].current_time
    /\ calls.of["c2"].observed.jwks.kind = "none"
    /\ calls.of["c3"].pc = "done" /\ calls.of["c3"].hit
    /\ calls.of["c3"].jwks = jwks_cache.jwks

\* the request dispatch has finished with was not on the exclusion list
ProtectedRequestDone == op = "dispatch" /\ pc = "done" /\ ~PathExcluded(request.path)

\* C31: dispatch ends every request outside the exclusion list with one
\* response, the downstream handler's or a 401 or a 500, and lets no
\* exception through, a failed JWKS fetch included; register_client ends
\* every request with a response, which has the upstream's status or is a
\* 500 with error "server_error", whatever the body, the upstream's answer,
\* the file's behaviour and the management API's answers were
C31_FailuresBecomeResponses ==
    /\ ProtectedRequestDone =>
           /\ result.kind = "response"
           /\ result.by = "downstream" \/ result.status \in {401, 500}
    /\ RegisterReturned =>
           /\ reg.response # NoDcrResponse
           /\ reg.exc = NoExc =>
                  reg.upstream.kind = "response" /\ reg.response.status = reg.upstream.status
           /\ reg.exc # NoExc =>
                  /\ reg.response.status = 500
                  /\ dict_get(reg.response.content, "error") = [some |-> TRUE, v |-> JStr("server_error")]

\* a request whose JWKS fetch failed on the network was answered with a 500
\* by the middleware
C31_Witness ==
    /\ ProtectedRequestDone
    /\ hist.fetch = "network"
    /\ result.kind = "response" /\ result.status = 500 /\ result.by = "middleware"

\* a registration whose POST timed out was answered with a 500
RegisterTimeoutAnswered ==
    ~(RegisterReturned /\ reg.upstream.kind = "exception" /\ reg.response.status = 500)

\* a plugin named in the hard dependencies of the k-th plugin came before it
\* and failed, raised or was skipped
HardDependencyFailedBefore(k) ==
    \E j \in 1..(k - 1) :
        /\ runner.plugins[j].name \in runner.plugins[k].depends_on
        /\ ~runner.results[j].passed

SoftDependencyRuns ==
    ~(/\ runner.pc = "done"
      /\ ~runner.results[1].passed
      /\ runner.plugins[3].run_after = {"A"} /\ runner.plugins[3].depends_on = {}
      /\ runner.executed[3] /\ runner.results[3].passed)

\* the URI store returned parses to the arguments of store, and
\* get_by_uri of it gave the artifact stored
UriRoundTrip ==
    /\ artifacts.op \in {"store", "get_by_uri"} =>
           parse_uri(artifacts.uri) =
               [some |-> TRUE, project_id |-> artifacts.project_id, path |-> artifacts.path]
    /\ artifacts.op = "get_by_uri" => artifacts.got = [some |-> TRUE, v |-> artifacts.content]

\* C33: for every project_id and path the URI returned by store parses back
\* to (project_id, path), and get_by_uri of it returns the artifact just
\* stored
C33_ArtifactUriRoundTrip == UriRoundTrip

\* the round trip holds for every project_id that holds no "/"
RoundTripWithoutSlash == ~Contains(artifacts.project_id, "/") => UriRoundTrip

\* get_by_uri of a URI that store returned gave another project's artifact
UriResolvesToAnotherArtifact ==
    ~(/\ artifacts.op = "get_by_uri"
      /\ artifacts.got.some /\ artifacts.got.v # artifacts.content)

\* dispatch has finished with a request outside the exclusion list whose
\* token verify_token accepted
VerifiedRequestDone == ProtectedRequestDone /\ verify.called /\ verify.outcome.ok

\* C34: a request outside the exclusion list whose token verify_token
\* accepted is never answered with a 401: the response is the downstream
\* handler's, or a 500 when the handler raised
C34_NoChallengeAfterVerification ==
    VerifiedRequestDone =>
        /\ result.kind = "response"
        /\ result.status # 401
        /\ result.by = "downstream" \/ result.status = 500

\* a handler that raised an exception other than ValueError and JoseError
\* after a successful verification was answered with a 500
HandlerErrorIsServerError ==
    ~(VerifiedRequestDone /\ result.status = 500 /\ result.by = "middleware")

\* in this step the fetch of coroutine c completed and wrote the entry
FetchCompletes(c) == calls.of[c].pc = "get" /\ calls'.of[c].pc = "aexit"

\* C35: under every interleaving of get_jwks coroutines no step replaces
\* the stored fetch time with an earlier one
C35_StampNeverDecreases ==
    [][jwks_cache'.last_fetch >= jwks_cache.last_fetch]_vars

\* C35 as the code has it: the entry changes only when a fetch completes,
\* and takes the time that coroutine read on entry, which is never earlier
\* than the stamp the coroutine saw on entry; so a coroutine that began after
\* the entry was written never lowers its stamp, and the stamp goes back
\* only when the coroutine that writes began before the entry it replaces
C35_StampIsWritersEntryTime ==
    [][jwks_cache' # jwks_cache =>
          \E c \in Callers :
              /\ FetchCompletes(c)
              /\ jwks_cache'.last_fetch = calls.of[c].current_time
              /\ jwks_cache'.last_fetch >= calls.of[c].observed.last_fetch
              /\ calls.of[c].observed = jwks_cache =>
                     jwks_cache'.last_fetch >= jwks_cache.last_fetch
              /\ jwks_cache'.last_fetch < jwks_cache.last_fetch =>
                     calls.of[c].observed.last_fetch < jwks_cache.last_fetch]_vars

\* two coroutines missed; the one that began later wrote first and the one
\* that began earlier wrote last: the entry carries the earlier time
C35_Witness ==
    /\ calls.of["c1"].pc \in {"aexit", "done"} /\ ~calls.of["c1"].hit
    /\ calls.of["c1"].exc = NoExc
    /\ calls.of["c2"].pc \in {"aexit", "done"} /\ ~calls.of["c2"].hit
    /\ calls.of["c2"].exc = NoExc
    /\ calls.of["c1"].current_time < calls.of["c2"].current_time
    /\ calls.last_write = <<jwks_cache.jwks, calls.of["c1"].current_time>>

-----------------------------------------------------------------------------
(* register_client under concurrent requests *)

\* One provider serves several POST /register requests on one event loop.
\* A coroutine gives up control only at an await that suspends: the POST to
\* the upstream, the token request and the PATCH of _update_client_type.
\* Between two of them it runs alone: the membership test and the append on
\* client_secrets, and the whole of _persist_dcr_secret (which awaits
\* nothing: it reads, merges and writes the file with blocking calls).

\* the bodies and the upstream's answers of the concurrent registrations
ConcurrentBodies ==
    {Bytes("utf8", "object", <<Uris>>, "spaced"), Bytes("utf8", "malformed", <<>>, "compact")}
ConcurrentRegisterOutcomes ==
    {Upstream(200, Bytes("utf8", "object", ClientData("s1"), "compact")),
     Upstream(201, Bytes("utf8", "object", ClientData("s2"), "compact")),
     Upstream(201, Bytes("utf8", "object", ClientData("s3"), "compact")),
     Upstream(201, Bytes("utf8", "object", ClientData(""), "compact")),
     Upstream(400, Bytes("utf8", "object",
                         <<<<"error", JStr("invalid_redirect_uri")>>>>, "compact")),
     HttpRaises(Exc("ReadTimeout", <<>>))}
ConcurrentTokenOutcomes ==
    {o \in TokenOutcomes : token_granted(o) \/ o.kind = "exception"}
ConcurrentPatchOutcomes ==
    {o \in PatchOutcomes : patch_succeeded(o) \/ o.kind = "exception"}

\* the file _persist_dcr_secret reads and writes
persisted_secrets(fs, prx) ==
    LET target == IF Truthy(prx.client_secrets_file) THEN "configured" ELSE "captured"
    IN IF fs[target].exists THEN fs[target].secrets ELSE <<>>

\* the secret of the upstream's response that register_client captures
captured_secret(c) ==
    IF c.ok /\ c.captured THEN dict_get(c.client_data, "client_secret").v.s ELSE ""

\* register_client of coroutine r, from the request to the await of its
\* POST to the upstream, or to its except clause
RegisterBegin(r, body) ==
    /\ registrations.of[r].pc = "idle"
    /\ InList(get_metadata_routes(proxy), <<"/register">>)
    /\ LET f == register_forward(body, InboundHeaders(body))
       IN registrations' =
              [registrations EXCEPT
                  !.of[r] = IF f.ok THEN [NoRegistration EXCEPT !.pc = "dcr_post"]
                            ELSE [NoRegistration EXCEPT
                                     !.pc = "done",
                                     !.status = server_error(f.exc).status]]
    /\ UNCHANGED <<ctor, config, environ, upstream, provider, exclude_paths, jwks_cache, now,
                   op, pc, request, token, verify, result, hist>>
    /\ UNCHANGED <<startup, proxy, client_secrets, files, reg, meta, jwe, calls, runner,
                   artifacts>>

\* the upstream answers coroutine r: the secret is captured in memory and
\* in the file in one step, and the coroutine goes on to its response or
\* to the await of the token request
RegisterPostReturn(r, o) ==
    /\ registrations.of[r].pc = "dcr_post"
    /\ LET c == register_captured(o, client_secrets, files, proxy, "ok")
           answered == o.kind = "response" /\ o.status \in {200, 201} /\ c.ok
           me == [registrations.of[r] EXCEPT !.upstream = o]
       IN IF o.kind = "exception"
          THEN /\ registrations' =
                      [registrations EXCEPT
                          !.of[r] = [me EXCEPT !.pc = "done",
                                               !.status = server_error(o.exc).status]]
               /\ UNCHANGED <<client_secrets, files>>
          ELSE IF o.status \notin {200, 201}
          THEN /\ registrations' =
                      [registrations EXCEPT
                          !.of[r] = [me EXCEPT !.pc = "done",
                                               !.status = register_failed(o).status]]
               /\ UNCHANGED <<client_secrets, files>>
          ELSE IF ~c.ok
          THEN /\ registrations' =
                      [registrations EXCEPT
                          !.of[r] = [me EXCEPT !.pc = "done",
                                               !.status = server_error(c.exc).status]]
               /\ UNCHANGED <<client_secrets, files>>
          ELSE /\ client_secrets' = c.secrets
               /\ files' = c.files
               /\ registrations' =
                      [registrations EXCEPT
                          !.of[r] = [me EXCEPT
                                        !.captured = captured_secret(c),
                                        !.pc = IF c.next = "mgmt_token" THEN "mgmt_token"
                                               ELSE "done",
                                        !.status = IF c.next = "mgmt_token" THEN 0
                                                   ELSE o.status],
                          !.captured = IF c.captured THEN @ \cup {captured_secret(c)}
                                       ELSE @]
    /\ UNCHANGED <<ctor, config, environ, upstream, provider, exclude_paths, jwks_cache, now,
                   op, pc, request, token, verify, result, hist>>
    /\ UNCHANGED <<startup, proxy, reg, meta, jwe, calls, runner, artifacts>>

\* the management API answers the token request of coroutine r
RegisterTokenReturn(r, o) ==
    /\ registrations.of[r].pc = "mgmt_token"
    /\ registrations' =
           [registrations EXCEPT
               !.of[r] = IF token_granted(o) THEN [@ EXCEPT !.pc = "mgmt_patch"]
                         ELSE [@ EXCEPT !.pc = "done", !.status = registrations.of[r].upstream.status]]
    /\ UNCHANGED <<ctor, config, environ, upstream, provider, exclude_paths, jwks_cache, now,
                   op, pc, request, token, verify, result, hist>>
    /\ UNCHANGED <<startup, proxy, client_secrets, files, reg, meta, jwe, calls, runner,
                   artifacts>>

\* the management API answers the PATCH of coroutine r, which responds
RegisterPatchReturn(r, o) ==
    /\ registrations.of[r].pc = "mgmt_patch"
    /\ registrations' =
           [registrations EXCEPT
               !.of[r] = [@ EXCEPT !.pc = "done", !.status = registrations.of[r].upstream.status]]
    /\ UNCHANGED <<ctor, config, environ, upstream, provider, exclude_paths, jwks_cache, now,
                   op, pc, request, token, verify, result, hist>>
    /\ UNCHANGED <<startup, proxy, client_secrets, files, reg, meta, jwe, calls, runner,
                   artifacts>>

\* the response of coroutine r is sent, and r can serve another request
RegisterResponded(r) ==
    /\ registrations.of[r].pc = "done"
    /\ registrations' = [registrations EXCEPT !.of[r] = NoRegistration]
    /\ UNCHANGED <<ctor, config, environ, upstream, provider, exclude_paths, jwks_cache, now,
                   op, pc, request, token, verify, result, hist>>
    /\ UNCHANGED <<startup, proxy, client_secrets, files, reg, meta, jwe, calls, runner,
                   artifacts>>

\* the deployments that serve concurrent registrations: with and without
\* management credentials, over every setup of the secret stores
ConcurrentRegisterDeployments ==
    {d \in RegisterDeployments :
        /\ (d[1].config.mgmt_client_id = None <=> d[1].config.mgmt_client_secret = None)
        /\ d[1].environ.AUTH0_MGMT_CLIENT_ID = None
        /\ d[1].mgmt_secret_file = None}

InitConcurrentRegister ==
    /\ InitWith({<<Args(Passed(Str(Idp \o Slash)), NotPassed, NotPassed), ConfigFile(None),
                   Environ(None)>>})
    /\ exclude_paths = default_exclude_paths
    /\ InitDcr(ConcurrentRegisterDeployments)

NextConcurrentRegister ==
    \/ \E r \in Registrants, body \in ConcurrentBodies : RegisterBegin(r, body)
    \/ \E r \in Registrants, o \in ConcurrentRegisterOutcomes : RegisterPostReturn(r, o)
    \/ \E r \in Registrants, o \in ConcurrentTokenOutcomes : RegisterTokenReturn(r, o)
    \/ \E r \in Registrants, o \in ConcurrentPatchOutcomes : RegisterPatchReturn(r, o)
    \/ \E r \in Registrants : RegisterResponded(r)

SpecConcurrentRegister == InitConcurrentRegister /\ [][NextConcurrentRegister]_vars

\* the number of positions of list l that hold x
Occurrences(l, x) == Cardinality({i \in 1..Len(l) : l[i] = x})

\* no register_client coroutine is between its request and its response
AllRegistrationsCompleted ==
    \A r \in Registrants : registrations.of[r].pc \in {"idle", "done"}

\* C36: once the concurrent POST /register requests of one provider have
\* all completed (the secrets file read and written without error), every
\* client_secret captured from a 200 or 201 of the upstream is in the
\* in-memory list exactly once and in the persisted secrets file
C36_NoLostUpdate ==
    AllRegistrationsCompleted =>
        \A sec \in registrations.captured :
            /\ Occurrences(client_secrets, sec) = 1
            /\ InList(persisted_secrets(files, proxy), sec)

\* no captured secret is lost, in whatever order the coroutines ran: each
\* is in the in-memory list and in the file, also while others are in flight
CapturedSecretsKept ==
    \A sec \in registrations.captured :
        /\ InList(client_secrets, sec)
        /\ InList(persisted_secrets(files, proxy), sec)

\* a provider whose list held no repetition after startup holds every
\* captured secret exactly once
CapturedOnceAfterCleanStartup ==
    NoDuplicates(reg.secrets0) =>
        \A sec \in registrations.captured : Occurrences(client_secrets, sec) = 1

\* two registrations whose POSTs were in flight together captured different
\* secrets, one of them still waiting for the management API
InterleavedCaptures ==
    \E r1, r2 \in Registrants :
        /\ r1 # r2
        /\ registrations.of[r1].captured # ""
        /\ registrations.of[r2].captured # ""
        /\ registrations.of[r1].captured # registrations.of[r2].captured
        /\ registrations.of[r1].pc = "mgmt_patch"
        /\ registrations.of[r2].pc = "done"

\* the path is an entry of the configured exclusion list itself, or lies
\* under an entry that names a directory
ExcludedEndpoint(path) ==
    \E i \in 1..Len(exclude_paths) :
        \/ path = exclude_paths[i]
        \/ /\ exclude_paths[i][Len(exclude_paths[i])] = "/.well-known/"
           /\ startswith(path, exclude_paths[i])

\* dispatch handed the request to the downstream handler without calling
\* authenticate_request
Unauthenticated == op = "dispatch" /\ ~verify.called /\ hist.downstream = 1

\* C37: a request bypasses authentication only if its path is an excluded
\* endpoint itself (/healthz, /readyz, /register) or lies under
\* /.well-known/; a path that only begins with the text of an excluded
\* entry (/registerX, /healthz-admin) is authenticated
C37_BypassOnlyExcludedEndpoints ==
    Unauthenticated => ExcludedEndpoint(request.path) /\ ListedPath(request.path)

\* the excluded endpoints themselves bypass, and a route that shares no
\* prefix with an entry never does
ExactEndpointsAndProtectedRoutes ==
    /\ (op = "dispatch" /\ ExcludedEndpoint(request.path)) => Unauthenticated
    /\ (op = "dispatch" /\ request.path = <<"/mcp">>) => ~Unauthenticated

\* /registerX was served without a token
PrefixSharingPathServed ==
    /\ Unauthenticated /\ pc = "done"
    /\ request.path = <<"/register", "X">>
    /\ ~request.authorization.some
    /\ result.kind = "response" /\ result.by = "downstream"

\* C38: every POST /register leads to exactly one POST to the upstream
\* registration endpoint, whatever its body is (a JSON object, JSON that is
\* no object, malformed JSON); register_client never responds without having
\* contacted the upstream
C38_AlwaysOneUpstreamPost ==
    op = "register" =>
        /\ reg.posts <= 1
        /\ pc = "done" => reg.posts = 1 /\ reg.sent

\* a body that is a JSON object, or UTF-8 text that is no JSON, is answered
\* after exactly one POST to the upstream, and never more than one is made
ObjectAndTextPostedOnce ==
    op = "register" =>
        /\ reg.posts <= 1
        /\ (pc = "done" /\ reg.inbound.enc = "utf8"
                /\ reg.inbound.json \in {"object", "malformed", "empty"})
               => reg.posts = 1 /\ reg.sent

\* a JSON array was answered with a 500 and nothing was sent upstream
ArrayAnsweredWithoutUpstream ==
    /\ op = "register" /\ pc = "done"
    /\ reg.inbound = Bytes("utf8", "array", <<>>, "compact")
    /\ reg.posts = 0 /\ ~reg.sent
    /\ reg.response.status = 500
    /\ reg.exc.type = "TypeError"

\* verify_token was called with a signed token whose iss claim is the
\* issuer value the authorization-server metadata document advertises
IssuedByAdvertisedIssuer ==
    /\ verify.called
    /\ Len(token) = 5
    /\ token[3].t = "payload"
    /\ token[3].claims.iss = advertised_issuer(provider)

\* verify_token ended with the ValueError of its issuer step
InvalidIssuerRaised ==
    /\ verify.finished
    /\ ~verify.outcome.ok
    /\ verify.outcome.exc.type = "ValueError"
    /\ verify.outcome.exc.msg # <<>>
    /\ verify.outcome.exc.msg[1] = "Invalid issuer. Expected one of "

\* C39: for every configuration (public URL set or not, issuer and public
\* URL with or without their trailing slash) a token whose iss is the issuer
\* the metadata document advertises passes the issuer step of verify_token
C39_AdvertisedIssuerAccepted ==
    IssuedByAdvertisedIssuer =>
        /\ issuer_ok(token[3].claims, provider)
        /\ ~InvalidIssuerRaised

\* a token issued under the gateway's name was verified by a provider whose
\* public URL is written with a trailing slash
C39_Witness ==
    /\ IssuedByAdvertisedIssuer
    /\ provider.public_url = Str(Gateway \o Slash)
    /\ token[3].claims.iss = Str(Gateway)
    /\ verify.finished /\ verify.outcome.ok

\* the same for a provider without public URL whose issuer is written with
\* its trailing slash, and for one whose public URL is the issuer's own
AdvertisedBackendIssuerVerified ==
    /\ IssuedByAdvertisedIssuer
    /\ ~Truthy(provider.public_url)
    /\ provider.issuer = Str(Idp \o Slash)
    /\ verify.finished /\ verify.outcome.ok

\* C40: whenever a DCR proxy URL is configured and the startup's discovery
\* yields no registration_endpoint (the GET raised, answered with a status
\* other than 200, or its 200 document lacks the field), the upstream DCR
\* endpoint is the DCR proxy URL and /register is mounted; the endpoint is
\* unset only when neither discovery nor a DCR proxy URL provides one
C40_ProxyUrlFallback ==
    /\ (Truthy(proxy.dcr_proxy_url) /\ ~RegistrationDiscovered)
           => proxy.upstream_dcr_endpoint = proxy.dcr_proxy_url /\ RegisterMounted
    /\ ~Truthy(proxy.upstream_dcr_endpoint)
           => ~RegistrationDiscovered /\ ~Truthy(proxy.dcr_proxy_url)

\* the fallback as __init__ takes it: after a GET that raised and after a
\* 200 document without the field the endpoint is the DCR proxy URL and
\* the route is mounted, and a discovered endpoint is always used
FallbackAfterExceptionOrMissingField ==
    /\ ProxyUrlFallback
           => proxy.upstream_dcr_endpoint = proxy.dcr_proxy_url /\ RegisterMounted
    /\ RegistrationDiscovered
           => proxy.upstream_dcr_endpoint = startup.discovery.registration_endpoint
                  /\ RegisterMounted

\* a provider with a DCR proxy URL whose discovery GET was answered with a
\* 503 served a metadata document without registration_endpoint, and has no
\* /register route
NoFallbackAfterRefusedDiscovery ==
    /\ MetadataReturned
    /\ Truthy(proxy.dcr_proxy_url)
    /\ startup.discovery = DiscoveryOk(503, None)
    /\ ~Truthy(proxy.upstream_dcr_endpoint)
    /\ ~meta.response.registration_endpoint.some
    /\ ~RegisterMounted

=============================================================================
